---- MODULE Spec2Model ----
(***************************************************************************)
(* Risk-gated position lifecycle of the trading backend: signals,          *)
(* positions, the per-user-per-day risk row, the kill-switch, exposure     *)
(* caps and the idempotency layer.                                         *)
(*                                                                         *)
(* Each HTTP handler runs in its own database session.  The handlers use   *)
(* plain SELECTs (no FOR UPDATE, no retry on conflict), so a handler is    *)
(* modelled as a sequence of steps: every SELECT reads the committed state *)
(* of the moment it runs, the session keeps what it read (the ORM objects) *)
(* and the commit writes the attributes the session changed.  The UNIQUE   *)
(* constraints of the tables are enforced by the database.                 *)
(*                                                                         *)
(* Money is counted in tenths of a currency unit (19.0 is 190) and the     *)
(* clock in minutes.                                                       *)
(***************************************************************************)
EXTENDS Integers, Sequences, FiniteSets, Bags, TLC

VARIABLES
    signals,      \* table signals: sequence of rows, id = index
    positions,    \* table positions: sequence of rows, id = index
    daily,        \* table daily_risk_state: sequence of rows
    idem,         \* table idempotency_keys: sequence of rows
    audit,        \* table audit_log: bag of rows
    trading,      \* runtime setting trading_enabled: None or Some(BOOLEAN)
    override,     \* table user_risk_profile_override: user -> None or Some(name)
    assignments,  \* table strategy_assignments: <<user, exchange>> -> None or Some(row)
    secrets,      \* table exchange_secrets: set of <<user, exchange>>
    cfg,          \* settings: exposure caps
    auth,         \* tables revoked_token and session_revocation, and the clock they use
    now,          \* wall clock, minutes (UTC)
    req,          \* handlers in flight: slot -> session state
    resp,         \* response of the handler that returned last
    executed      \* history: how often each idempotency key's operation committed

vars == <<signals, positions, daily, idem, audit, trading, override, assignments,
          secrets, cfg, auth, now, req, resp, executed>>


----------------------------------------------------------------------------
(* Bounds of the model. *)

MaxSignals == 2
MaxAudit == 5
MaxInFlight == 2
MaxNow == 300
MaxSeqAudit == 3
MaxOpsAudit == 3
MaxProfileAudit == 3

StartNow == 270

----------------------------------------------------------------------------
(* Values. *)

None == <<>>
Some(x) == <<x>>
IsSome(o) == o # <<>>
Get(o) == o[1]

Users == {"u1", "u2"}
Exchanges == {"BINANCE", "IBKR"}
Slots == 1..MaxInFlight

QtySet == {1, 2}

\* Idempotency keys as sent in the header: token sequences (None: header absent).
KeySet == { None, Some(<<"k1">>), Some(<<" ", "k1">>) }

Email(u) == IF u = "u1" THEN "trader@test.com" ELSE "trader2@test.com"

settings == [ RISK_PROFILE_MODEL2_EMAIL |-> "admin@test.com",
              RISK_PROFILE_LOOSE_EMAIL  |-> "trader@test.com",
              TRADING_ENABLED_DEFAULT   |-> TRUE ]

\* config.py: both caps default to 0.0 (no cap)
DefaultExposure == [MAX_OPEN_QTY_PER_SYMBOL |-> 0, MAX_OPEN_NOTIONAL_PER_EXCHANGE |-> 0]

ExposureConfigs ==
    { [MAX_OPEN_QTY_PER_SYMBOL |-> 0, MAX_OPEN_NOTIONAL_PER_EXCHANGE |-> 0],
      [MAX_OPEN_QTY_PER_SYMBOL |-> 2, MAX_OPEN_NOTIONAL_PER_EXCHANGE |-> 0],
      [MAX_OPEN_QTY_PER_SYMBOL |-> 0, MAX_OPEN_NOTIONAL_PER_EXCHANGE |-> 2000] }

PROFILE_MODEL2 ==
    [ profile_name |-> "model2_conservador_productivo",
      max_daily_loss_pct |-> 15,
      max_trades_per_day |-> 3,
      max_open_positions |-> 2,
      cooldown_between_trades_minutes |-> 30 ]

PROFILE_LOOSE ==
    [ profile_name |-> "modelo_suelto_controlado",
      max_daily_loss_pct |-> 20,
      max_trades_per_day |-> 4,
      max_open_positions |-> 2,
      cooldown_between_trades_minutes |-> 20 ]


Abs(x) == IF x < 0 THEN -x ELSE x
Max(a, b) == IF a >= b THEN a ELSE b

RECURSIVE SumSeq(_)
SumSeq(s) == IF s = <<>> THEN 0 ELSE Head(s) + SumSeq(Tail(s))

----------------------------------------------------------------------------
(* Time. *)

MinutesPerDay == 1440
BogotaOffset == 300

\* today_colombia(): the calendar day of the clock in America/Bogota (UTC-5).
today_colombia == (now - BogotaOffset) \div MinutesPerDay

----------------------------------------------------------------------------
(* Risk profiles. *)

resolve_risk_profile_for_email(email) ==
    IF email # "" /\ email = settings.RISK_PROFILE_LOOSE_EMAIL THEN PROFILE_LOOSE
    ELSE IF email # "" /\ email = settings.RISK_PROFILE_MODEL2_EMAIL THEN PROFILE_MODEL2
    ELSE PROFILE_MODEL2

ProfileByName(name) ==
    IF name = PROFILE_LOOSE.profile_name THEN PROFILE_LOOSE ELSE PROFILE_MODEL2

\* Per-user override row first, then the email mapping, then the default.
resolve_risk_profile(u) ==
    IF IsSome(override[u]) THEN ProfileByName(Get(override[u]))
    ELSE resolve_risk_profile_for_email(Email(u))

\* apply_profile_daily_limits: the thresholds a row gets from a profile.
profile_daily_stop(profile) == -Abs(profile.max_daily_loss_pct)
profile_max_trades(profile) == profile.max_trades_per_day

----------------------------------------------------------------------------
(* Trading controls. *)

Upper(tok) == IF tok = "usdt" THEN "USDT" ELSE IF tok = "btc" THEN "BTC" ELSE tok
UpperSym(sym) == [i \in DOMAIN sym |-> Upper(sym[i])]

infer_exchange_from_symbol(sym) ==
    LET s == UpperSym(sym) IN
    IF \/ (Len(s) > 0 /\ s[Len(s)] = "USDT")
       \/ (\E i \in 1..(Len(s) - 1) : s[i] = "/" /\ s[i + 1] = "USDT")
    THEN "BINANCE" ELSE "IBKR"

get_trading_enabled ==
    IF trading = None THEN settings.TRADING_ENABLED_DEFAULT ELSE Get(trading)

\* assert_exposure_limits: "ok", or the cap the projected exposure exceeds.
OpenQtySymbol(u, sym) ==
    SumSeq([i \in DOMAIN positions |->
        IF /\ positions[i].user = u /\ positions[i].status = "OPEN"
           /\ UpperSym(positions[i].symbol) = UpperSym(sym)
        THEN positions[i].qty ELSE 0])

OpenNotionalExchange(u, exchange) ==
    SumSeq([i \in DOMAIN positions |->
        IF /\ positions[i].user = u /\ positions[i].status = "OPEN"
           /\ infer_exchange_from_symbol(UpperSym(positions[i].symbol)) = exchange
        THEN positions[i].qty * positions[i].entry_price ELSE 0])

\* The exposure check that lets every request pass.
assert_exposure_limits_off(u, exchange, sym, qty, price_estimate) == "ok"

assert_exposure_limits(u, exchange, sym, qty, price_estimate) ==
    LET max_qty == cfg.MAX_OPEN_QTY_PER_SYMBOL
        max_notional_exchange == cfg.MAX_OPEN_NOTIONAL_PER_EXCHANGE
        projected_qty_symbol == OpenQtySymbol(u, sym) + qty
        projected_notional_exchange ==
            OpenNotionalExchange(u, exchange) + qty * Max(0, price_estimate)
    IN  IF max_qty > 0 /\ projected_qty_symbol > max_qty
        THEN "execution.blocked.exposure.symbol_qty"
        ELSE IF max_notional_exchange > 0 /\ projected_notional_exchange > max_notional_exchange
        THEN "execution.blocked.exposure.exchange_notional"
        ELSE "ok"

----------------------------------------------------------------------------
(* Idempotency layer. *)

RECURSIVE LStrip(_)
LStrip(s) == IF s # <<>> /\ Head(s) = " " THEN LStrip(Tail(s)) ELSE s

RECURSIVE RStrip(_)
RStrip(s) == IF s # <<>> /\ s[Len(s)] = " " THEN RStrip(SubSeq(s, 1, Len(s) - 1)) ELSE s

\* str.strip() of a key
strip(s) == RStrip(LStrip(s))

\* sha256 is taken to be free of collisions: the digest stands for its preimage.
_sha256(value) == [sha256 |-> value]

\* json.dumps with sorted keys: a mapping is written the same way whatever the
\* order its keys were given in, which is what a record already is.
_canonical_payload(payload) == [json |-> payload]

json_dumps(x) == [json |-> x]
json_loads(text) == text.json

\* The key a request really carries: None when the header is missing or blank.
EffectiveKey(key) ==
    IF key = None THEN None
    ELSE IF strip(Get(key)) = <<>> THEN None ELSE Some(strip(Get(key)))

IdemRows(u, endpoint, key_hash) ==
    { i \in DOMAIN idem : /\ idem[i].user_id = u
                          /\ idem[i].endpoint = endpoint
                          /\ idem[i].key_hash = key_hash }

\* The lookup with the hash of the key as sent, not stripped.
consume_idempotent_response_raw_key(u, endpoint, idempotency_key, request_payload) ==
    IF EffectiveKey(idempotency_key) = None THEN [outcome |-> "miss", response |-> None]
    ELSE LET key_hash == _sha256(Get(idempotency_key))
             request_hash == _sha256(_canonical_payload(request_payload))
             rows == IdemRows(u, endpoint, key_hash)
         IN  IF rows = {} THEN [outcome |-> "miss", response |-> None]
             ELSE LET row == idem[CHOOSE i \in rows : TRUE] IN
                  IF row.request_hash # request_hash
                  THEN [outcome |-> "conflict", response |-> None]
                  ELSE [outcome |-> "hit", response |-> Some(json_loads(row.response_json))]

\* The lookup without the comparison of the request hashes.
consume_idempotent_response_any_payload(u, endpoint, idempotency_key, request_payload) ==
    IF EffectiveKey(idempotency_key) = None THEN [outcome |-> "miss", response |-> None]
    ELSE LET key_hash == _sha256(Get(EffectiveKey(idempotency_key)))
             rows == IdemRows(u, endpoint, key_hash)
         IN  IF rows = {} THEN [outcome |-> "miss", response |-> None]
             ELSE LET row == idem[CHOOSE i \in rows : TRUE] IN
                  [outcome |-> "hit", response |-> Some(json_loads(row.response_json))]

\* consume_idempotent_response: miss (None), hit (the stored response) or conflict (409).
consume_idempotent_response(u, endpoint, idempotency_key, request_payload) ==
    IF EffectiveKey(idempotency_key) = None THEN [outcome |-> "miss", response |-> None]
    ELSE LET key_hash == _sha256(Get(EffectiveKey(idempotency_key)))
             request_hash == _sha256(_canonical_payload(request_payload))
             rows == IdemRows(u, endpoint, key_hash)
         IN  IF rows = {} THEN [outcome |-> "miss", response |-> None]
             ELSE LET row == idem[CHOOSE i \in rows : TRUE] IN
                  IF row.request_hash # request_hash
                  THEN [outcome |-> "conflict", response |-> None]
                  ELSE [outcome |-> "hit", response |-> Some(json_loads(row.response_json))]

\* UniqueConstraint uq_idempotency_user_endpoint_key
uq_idempotency_user_endpoint_key(u, endpoint, key_hash) ==
    IdemRows(u, endpoint, key_hash) # {}

\* store_idempotent_response, given a key: the table afterwards and whether it raised.
store_idempotent_response(u, endpoint, idempotency_key, request_payload, response_payload) ==
    IF EffectiveKey(idempotency_key) = None THEN [idem |-> idem, raised |-> FALSE]
    ELSE LET key_hash == _sha256(Get(EffectiveKey(idempotency_key)))
             request_hash == _sha256(_canonical_payload(request_payload))
             row == [ user_id |-> u, endpoint |-> endpoint, key_hash |-> key_hash,
                      request_hash |-> request_hash,
                      response_json |-> json_dumps(response_payload) ]
         IN  IF ~uq_idempotency_user_endpoint_key(u, endpoint, key_hash)
             THEN [idem |-> Append(idem, row), raised |-> FALSE]
             ELSE \* IntegrityError: rollback, re-read, compare the hashes
                  LET existing == idem[CHOOSE i \in IdemRows(u, endpoint, key_hash) : TRUE] IN
                  [idem |-> idem, raised |-> existing.request_hash # request_hash]

----------------------------------------------------------------------------
(* Sessions and responses. *)

Idle == [kind |-> "idle"]

InFlight == { sl \in Slots : req[sl].kind # "idle" }
FreeSlots == Slots \ InFlight
FreeSlot == CHOOSE sl \in FreeSlots : \A other \in FreeSlots : sl <= other

\* A handler may start while a session is free and the audit log has room.
CanStart == FreeSlots # {} /\ BagCardinality(audit) < MaxAudit

AuditLog(action, u, entity_id, details) ==
    [action |-> action, user_id |-> u, entity_id |-> entity_id, details |-> details]

log_audit_event(action, u, entity_id, details) ==
    audit (+) SetToBag({AuditLog(action, u, entity_id, details)})

\* A response, with the request it answers; cached: served by the replay check.
Response(kind, u, key, a, status, body) ==
    [ kind |-> kind, user |-> u, key |-> key, a |-> a, status |-> status,
      body |-> body, cached |-> FALSE ]

CachedResponse(kind, u, key, a, body) ==
    [ kind |-> kind, user |-> u, key |-> key, a |-> a, status |-> 200,
      body |-> body, cached |-> TRUE ]

Begin(kind, u, key, pc, a, l) ==
    [req EXCEPT ![FreeSlot] =
        [kind |-> kind, user |-> u, key |-> key, pc |-> pc, a |-> a, l |-> l]]

Goto(sl, pc, l) == [req EXCEPT ![sl].pc = pc, ![sl].l = l]
End(sl) == [req EXCEPT ![sl] = Idle]

At(sl, kind, pc) == req[sl].kind = kind /\ req[sl].pc = pc

----------------------------------------------------------------------------
\* no token revoked, no session marker; the clock of the tokens, in half seconds
NoSessions ==
    [ revoked_token |-> {}, session_revocation |-> [u \in Users |-> None], clock |-> 2 ]

Init ==
    /\ signals = <<>>
    /\ positions = <<>>
    /\ daily = <<>>
    /\ idem = <<>>
    /\ audit = EmptyBag
    /\ trading = None
    /\ override = [u \in Users |-> None]
    /\ assignments = [k \in Users \X Exchanges |-> None]
    /\ secrets = {}
    /\ cfg = DefaultExposure
    /\ now = StartNow
    /\ req = [sl \in Slots |-> Idle]
    /\ resp = Response("none", "-", None, None, 0, None)
    /\ executed = EmptyBag
    /\ auth = NoSessions

conf == <<trading, override, assignments, secrets, cfg, auth>>

----------------------------------------------------------------------------
(* Daily risk rows, as a session sees and writes them. *)

DailyRows(u, day) == { i \in DOMAIN daily : daily[i].user_id = u /\ daily[i].day = day }

\* The table without its constraint.
uq_user_day_off(u, day) == FALSE

\* UniqueConstraint("user_id", "day"): a committed row already has the key.
uq_user_day(u, day) == DailyRows(u, day) # {}

\* Another session has flushed an INSERT of the same key and not yet ended: the
\* database makes a second INSERT of that key wait for it.
InsertPending(sl, u, day) ==
    \E other \in InFlight \ {sl} :
        /\ req[other].pc = "finish"
        /\ req[other].l.dr_new
        /\ req[other].l.dr.user_id = u
        /\ req[other].l.dr.day = day

\* The user's newest row, whatever its day.
SelectDaily_latest(u, day) ==
    LET mine == { i \in DOMAIN daily : daily[i].user_id = u } IN
    IF mine = {} THEN None
    ELSE LET i == CHOOSE i \in mine : \A j \in mine : j <= i IN
         Some([ idx |-> i, user_id |-> u, day |-> daily[i].day,
                trades_today |-> daily[i].trades_today,
                realized_pnl_today |-> daily[i].realized_pnl_today,
                daily_stop |-> daily[i].daily_stop,
                max_trades |-> daily[i].max_trades ])

\* select(DailyRiskState).where(user_id == u, day == today).scalar_one_or_none()
SelectDaily(u, day) ==
    IF DailyRows(u, day) = {} THEN None
    ELSE LET i == CHOOSE i \in DailyRows(u, day) : TRUE IN
         Some([ idx |-> i, user_id |-> u, day |-> day,
                trades_today |-> daily[i].trades_today,
                realized_pnl_today |-> daily[i].realized_pnl_today,
                daily_stop |-> daily[i].daily_stop,
                max_trades |-> daily[i].max_trades ])

\* DailyRiskState(user_id=u, day=today) with the column defaults (-5.0 and 3)
NewDailyRiskState(u, day) ==
    [ idx |-> 0, user_id |-> u, day |-> day, trades_today |-> 0,
      realized_pnl_today |-> 0, daily_stop |-> -50, max_trades |-> 3 ]

\* The row with the thresholds it already had.
apply_profile_daily_limits_kept(dr, profile) == dr

apply_profile_daily_limits(dr, profile) ==
    [dr EXCEPT !.daily_stop = profile_daily_stop(profile),
               !.max_trades = profile_max_trades(profile)]

DailyRow(dr) ==
    [ user_id |-> dr.user_id, day |-> dr.day, trades_today |-> dr.trades_today,
      realized_pnl_today |-> dr.realized_pnl_today, daily_stop |-> dr.daily_stop,
      max_trades |-> dr.max_trades ]

\* The table after the session's flush: an INSERT of a new row, or an UPDATE of
\* the attributes whose value differs from the one the session loaded.
FlushDaily(dr, dr0, dr_new) ==
    IF dr_new THEN Append(daily, DailyRow(dr))
    ELSE [daily EXCEPT ![dr.idx] =
            [ user_id |-> @.user_id, day |-> @.day,
              trades_today |-> IF dr.trades_today # dr0.trades_today
                               THEN dr.trades_today ELSE @.trades_today,
              realized_pnl_today |-> IF dr.realized_pnl_today # dr0.realized_pnl_today
                                     THEN dr.realized_pnl_today ELSE @.realized_pnl_today,
              daily_stop |-> IF dr.daily_stop # dr0.daily_stop
                             THEN dr.daily_stop ELSE @.daily_stop,
              max_trades |-> IF dr.max_trades # dr0.max_trades
                             THEN dr.max_trades ELSE @.max_trades ]]

----------------------------------------------------------------------------
(* Positions. *)

OpenPositions(u) == { i \in DOMAIN positions : positions[i].user = u /\ positions[i].status = "OPEN" }

\* coalesce(closed_at, opened_at)
LastActivity(p) == IF IsSome(p.closed_at) THEN Get(p.closed_at) ELSE p.opened_at

\* select(func.max(func.coalesce(closed_at, opened_at))).where(user_id == u)
last_trade_at(u) ==
    LET mine == { i \in DOMAIN positions : positions[i].user = u } IN
    IF mine = {} THEN None
    ELSE Some(LastActivity(positions[
            CHOOSE i \in mine : \A j \in mine :
                LastActivity(positions[i]) >= LastActivity(positions[j])]))

PositionOut(id, p) ==
    [ id |-> id, user_id |-> p.user, signal_id |-> p.signal_id, symbol |-> p.symbol,
      side |-> p.side, qty |-> p.qty, entry_price |-> p.entry_price,
      status |-> p.status, realized_pnl |-> p.realized_pnl, fees |-> p.fees ]

SignalOut(id, s) ==
    [ id |-> id, user_id |-> s.user, symbol |-> s.symbol,
      entry_price |-> s.entry_price, status |-> s.status ]

----------------------------------------------------------------------------
(* POST /signals *)

\* The signals that wait for their position: created or claimed.
LiveSignals == { i \in DOMAIN signals : signals[i].status \in {"CREATED", "EXECUTING"} }

create_signal(u, symbol, entry_price) ==
    /\ CanStart
    /\ Cardinality(LiveSignals) < MaxSignals
    /\ signals' = Append(signals, [ user |-> u, symbol |-> symbol,
                                    entry_price |-> entry_price, status |-> "CREATED" ])
    /\ audit' = log_audit_event("signal.create", u, Some(Len(signals) + 1), None)
    /\ resp' = Response("create_signal", u, None,
                        [symbol |-> symbol, entry_price |-> entry_price], 200,
                        SignalOut(Len(signals) + 1, signals'[Len(signals) + 1]))
    /\ UNCHANGED <<positions, daily, idem, conf, now, req, executed>>

(* POST /signals/claim *)

\* The first `limit` rows of a set of ids, in the order of creation.
FirstRows(ids, limit) == { i \in ids : Cardinality({ j \in ids : j < i }) < limit }

\* The claim without the filter on the status.
claim_signals_select_any(u, limit) ==
    /\ CanStart
    /\ req' = Begin("claim", u, None, "commit", [limit |-> limit],
                    [rows |-> FirstRows({ i \in DOMAIN signals : signals[i].user = u }, limit)])
    /\ UNCHANGED <<signals, positions, daily, idem, audit, conf, now, resp, executed>>

claim_signals_select(u, limit) ==
    /\ CanStart
    /\ req' = Begin("claim", u, None, "commit", [limit |-> limit],
                    [rows |-> FirstRows({ i \in DOMAIN signals :
                                            /\ signals[i].status = "CREATED"
                                            /\ signals[i].user = u }, limit)])
    /\ UNCHANGED <<signals, positions, daily, idem, audit, conf, now, resp, executed>>

claim_signals_commit(sl) ==
    /\ At(sl, "claim", "commit")
    /\ signals' = [i \in DOMAIN signals |->
                     IF i \in req[sl].l.rows
                     THEN [signals[i] EXCEPT !.status = "EXECUTING"] ELSE signals[i]]
    /\ audit' = log_audit_event("signal.claim", req[sl].user, None,
                                Some([claimed_count |-> Cardinality(req[sl].l.rows)]))
    /\ resp' = Response("claim", req[sl].user, None, req[sl].a, 200,
                        { SignalOut(i, signals'[i]) : i \in req[sl].l.rows })
    /\ req' = End(sl)
    /\ UNCHANGED <<positions, daily, idem, conf, now, executed>>

(* POST /ops/admin/trading-control *)

update_admin_trading_control(enabled) ==
    /\ CanStart
    /\ trading' = Some(enabled)
    /\ audit' = log_audit_event("security.trading_control.updated", "admin", None,
                                Some([trading_enabled |-> enabled]))
    /\ resp' = Response("trading_control", "admin", None, [trading_enabled |-> enabled],
                        200, [trading_enabled |-> enabled])
    /\ UNCHANGED <<signals, positions, daily, idem, override, assignments, secrets, cfg, auth,
                   now, req, executed>>

(* The clock. *)

Tick(d) ==
    /\ now + d <= MaxNow
    /\ now' = now + d
    /\ UNCHANGED <<signals, positions, daily, idem, audit, conf, req, resp, executed>>

----------------------------------------------------------------------------
(* POST /positions/open_from_signal *)

OpenEndpoint == "/positions/open_from_signal"

OpenPayload(signal_id, qty) == [signal_id |-> signal_id, qty |-> qty]

\* A handler returns: its session ends and its response goes out.
Return(sl, status, body) ==
    /\ resp' = Response(req[sl].kind, req[sl].user, req[sl].key, req[sl].a, status, body)
    /\ req' = End(sl)

\* `if cached is not None: return cached`
ReturnCached(sl, body) ==
    /\ resp' = CachedResponse(req[sl].kind, req[sl].user, req[sl].key, req[sl].a, body)
    /\ req' = End(sl)

\* The risk block that raises without its audit row.
RiskBlock_unaudited(sl, status, action) ==
    /\ audit' = audit
    /\ Return(sl, status, action)

\* _log_and_raise_risk_block / the blocks of trading_controls: audit, commit, raise.
RiskBlock(sl, status, action) ==
    /\ audit' = log_audit_event(action, req[sl].user, None, None)
    /\ Return(sl, status, action)

\* lines 59-68: the replay check
open_from_signal_consume(u, signal_id, qty, key) ==
    /\ CanStart
    /\ LET cached == consume_idempotent_response(u, OpenEndpoint, key,
                                                 OpenPayload(signal_id, qty))
       IN  IF cached.outcome = "hit"
           THEN /\ resp' = CachedResponse("open", u, key, OpenPayload(signal_id, qty),
                                          Get(cached.response))
                /\ UNCHANGED req
           ELSE IF cached.outcome = "conflict"
           THEN /\ resp' = Response("open", u, key, OpenPayload(signal_id, qty), 409,
                                    "Idempotency key already used with different payload")
                /\ UNCHANGED req
           ELSE /\ req' = Begin("open", u, key, "signal",
                                OpenPayload(signal_id, qty), <<>>)
                /\ UNCHANGED resp
    /\ UNCHANGED <<signals, positions, daily, idem, audit, conf, now, executed>>

\* The signal checks that log the refusal of a signal that does not wait as
\* a risk block.
open_from_signal_signal_block_logged(sl) ==
    /\ At(sl, "open", "signal")
    /\ LET u == req[sl].user
           sid == req[sl].a.signal_id
       IN  IF sid \notin DOMAIN signals
           THEN /\ Return(sl, 404, "Signal not found")
                /\ UNCHANGED audit
           ELSE IF signals[sid].user # u
           THEN /\ Return(sl, 403, "Cannot open another user's signal")
                /\ UNCHANGED audit
           ELSE IF signals[sid].status # "EXECUTING"
           THEN RiskBlock(sl, 409, "position.open.blocked.max_open_positions")
           ELSE IF signals[sid].entry_price = None
           THEN /\ Return(sl, 400, "Signal missing entry_price")
                /\ UNCHANGED audit
           ELSE /\ req' = Goto(sl, "kill",
                    [ profile |-> resolve_risk_profile(u),
                      s |-> [ id |-> sid, user |-> u, symbol |-> signals[sid].symbol,
                              entry_price |-> Get(signals[sid].entry_price) ] ])
                /\ UNCHANGED <<resp, audit>>
    /\ UNCHANGED <<signals, positions, daily, idem, conf, now, executed>>

\* lines 70-80: the profile and the signal
open_from_signal_signal(sl) ==
    /\ At(sl, "open", "signal")
    /\ LET u == req[sl].user
           sid == req[sl].a.signal_id
       IN  IF sid \notin DOMAIN signals
           THEN Return(sl, 404, "Signal not found")
           ELSE IF signals[sid].user # u
           THEN Return(sl, 403, "Cannot open another user's signal")
           ELSE IF signals[sid].status # "EXECUTING"
           THEN Return(sl, 409, "Signal status must be EXECUTING")
           ELSE IF signals[sid].entry_price = None
           THEN Return(sl, 400, "Signal missing entry_price")
           ELSE /\ req' = Goto(sl, "kill",
                    [ profile |-> resolve_risk_profile(u),
                      s |-> [ id |-> sid, user |-> u, symbol |-> signals[sid].symbol,
                              entry_price |-> Get(signals[sid].entry_price) ] ])
                /\ UNCHANGED resp
    /\ UNCHANGED <<signals, positions, daily, idem, audit, conf, now, executed>>

\* lines 82-88: assert_trading_enabled
open_from_signal_kill(sl) ==
    /\ At(sl, "open", "kill")
    /\ IF get_trading_enabled
       THEN /\ req' = Goto(sl, "exposure", req[sl].l)
            /\ UNCHANGED <<audit, resp>>
       ELSE RiskBlock(sl, 409, "execution.blocked.kill_switch")
    /\ UNCHANGED <<signals, positions, daily, idem, conf, now, executed>>

\* lines 89-96: assert_exposure_limits
open_from_signal_exposure(sl) ==
    /\ At(sl, "open", "exposure")
    /\ LET s == req[sl].l.s
           verdict == assert_exposure_limits(req[sl].user,
                          infer_exchange_from_symbol(s.symbol), s.symbol,
                          req[sl].a.qty, s.entry_price)
       IN  IF verdict = "ok"
           THEN /\ req' = Goto(sl, "max_open", req[sl].l)
                /\ UNCHANGED <<audit, resp>>
           ELSE RiskBlock(sl, 409, verdict)
    /\ UNCHANGED <<signals, positions, daily, idem, conf, now, executed>>

\* The count compared with > where the handler has >=.
open_from_signal_max_open_gt(sl) ==
    /\ At(sl, "open", "max_open")
    /\ IF Cardinality(OpenPositions(req[sl].l.s.user)) > req[sl].l.profile.max_open_positions
       THEN RiskBlock(sl, 409, "position.open.blocked.max_open_positions")
       ELSE /\ req' = Goto(sl, "cooldown", req[sl].l)
            /\ UNCHANGED <<audit, resp>>
    /\ UNCHANGED <<signals, positions, daily, idem, conf, now, executed>>

\* lines 98-113: the count of OPEN positions against the profile
open_from_signal_max_open(sl) ==
    /\ At(sl, "open", "max_open")
    /\ IF Cardinality(OpenPositions(req[sl].l.s.user)) >= req[sl].l.profile.max_open_positions
       THEN RiskBlock(sl, 409, "position.open.blocked.max_open_positions")
       ELSE /\ req' = Goto(sl, "cooldown", req[sl].l)
            /\ UNCHANGED <<audit, resp>>
    /\ UNCHANGED <<signals, positions, daily, idem, conf, now, executed>>

\* The cooldown gate that also blocks when exactly the cooldown has elapsed.
open_from_signal_cooldown_le(sl) ==
    /\ At(sl, "open", "cooldown")
    /\ LET last == last_trade_at(req[sl].l.s.user) IN
       IF IsSome(last) /\ now - Get(last) <= req[sl].l.profile.cooldown_between_trades_minutes
       THEN RiskBlock(sl, 409, "position.open.blocked.cooldown")
       ELSE /\ req' = Goto(sl, "daily", req[sl].l)
            /\ UNCHANGED <<audit, resp>>
    /\ UNCHANGED <<signals, positions, daily, idem, conf, now, executed>>

\* lines 115-132: the cooldown since the last activity
open_from_signal_cooldown(sl) ==
    /\ At(sl, "open", "cooldown")
    /\ LET last == last_trade_at(req[sl].l.s.user) IN
       IF IsSome(last) /\ now - Get(last) < req[sl].l.profile.cooldown_between_trades_minutes
       THEN RiskBlock(sl, 409, "position.open.blocked.cooldown")
       ELSE /\ req' = Goto(sl, "daily", req[sl].l)
            /\ UNCHANGED <<audit, resp>>
    /\ UNCHANGED <<signals, positions, daily, idem, conf, now, executed>>

\* The SELECT of today's row (open: lines 134-144, close: lines 256-266).
SelectDailyStep(sl, kind) ==
    /\ At(sl, kind, "daily")
    /\ LET today == today_colombia
           dr == SelectDaily(req[sl].user, today)
       IN  req' = IF dr = None
                  THEN Goto(sl, "dr_insert", req[sl].l @@ [today |-> today])
                  ELSE Goto(sl, "finish",
                            req[sl].l @@ [dr |-> Get(dr), dr0 |-> Get(dr), dr_new |-> FALSE])
    /\ UNCHANGED <<signals, positions, daily, idem, audit, conf, now, resp, executed>>

\* db.add(dr); db.flush() when there was no row (open: lines 145-148, close: 268-271).
\* A violated constraint raises IntegrityError: the handler fails, its session rolls back.
InsertDailyStep(sl, kind) ==
    /\ At(sl, kind, "dr_insert")
    /\ ~InsertPending(sl, req[sl].user, req[sl].l.today)
    /\ IF uq_user_day(req[sl].user, req[sl].l.today)
       THEN Return(sl, 500, "IntegrityError")
       ELSE /\ req' = Goto(sl, "finish",
                        req[sl].l @@ [ dr |-> NewDailyRiskState(req[sl].user, req[sl].l.today),
                                       dr0 |-> NewDailyRiskState(req[sl].user, req[sl].l.today),
                                       dr_new |-> TRUE ])
            /\ UNCHANGED resp
    /\ UNCHANGED <<signals, positions, daily, idem, audit, conf, now, executed>>

open_from_signal_daily(sl) == SelectDailyStep(sl, "open")

open_from_signal_daily_insert(sl) == InsertDailyStep(sl, "open")

\* The key's operation has committed once more.
Executed(u, endpoint, key) ==
    IF EffectiveKey(key) = None THEN executed
    ELSE executed (+) SetToBag({<<u, endpoint, _sha256(Get(EffectiveKey(key)))>>})

\* The last step of the open with max_trades compared by > instead of >=.
open_from_signal_finish_gt(sl) ==
    /\ At(sl, "open", "finish")
    /\ LET u == req[sl].user
           l == req[sl].l
           dr == apply_profile_daily_limits(l.dr, l.profile)
           p == [ user |-> l.s.user, signal_id |-> l.s.id, symbol |-> l.s.symbol,
                  side |-> "LONG", qty |-> req[sl].a.qty, entry_price |-> l.s.entry_price,
                  status |-> "OPEN", opened_at |-> now, closed_at |-> None,
                  realized_pnl |-> None, fees |-> None ]
       IN  IF dr.realized_pnl_today <= dr.daily_stop
           THEN /\ daily' = FlushDaily(dr, l.dr0, l.dr_new)
                /\ RiskBlock(sl, 409, "position.open.blocked.daily_stop")
                /\ UNCHANGED <<signals, positions, executed>>
           ELSE IF dr.trades_today > dr.max_trades
           THEN /\ daily' = FlushDaily(dr, l.dr0, l.dr_new)
                /\ RiskBlock(sl, 409, "position.open.blocked.max_trades")
                /\ UNCHANGED <<signals, positions, executed>>
           ELSE /\ daily' = FlushDaily(dr, l.dr0, l.dr_new)
                /\ positions' = Append(positions, p)
                /\ signals' = [signals EXCEPT ![l.s.id].status = "OPENED"]
                /\ audit' = log_audit_event("position.open", u, Some(Len(positions) + 1),
                                           Some([signal_id |-> l.s.id, qty |-> req[sl].a.qty]))
                /\ executed' = Executed(u, OpenEndpoint, req[sl].key)
                /\ IF EffectiveKey(req[sl].key) = None
                   THEN Return(sl, 200, PositionOut(Len(positions) + 1, p))
                   ELSE /\ req' = Goto(sl, "store",
                                       [body |-> PositionOut(Len(positions) + 1, p)])
                        /\ UNCHANGED resp
    /\ UNCHANGED <<idem, conf, now>>

\* lines 149-195: the daily gates, then the position, the signal and the commit
open_from_signal_finish(sl) ==
    /\ At(sl, "open", "finish")
    /\ LET u == req[sl].user
           l == req[sl].l
           dr == apply_profile_daily_limits(l.dr, l.profile)
           p == [ user |-> l.s.user, signal_id |-> l.s.id, symbol |-> l.s.symbol,
                  side |-> "LONG", qty |-> req[sl].a.qty, entry_price |-> l.s.entry_price,
                  status |-> "OPEN", opened_at |-> now, closed_at |-> None,
                  realized_pnl |-> None, fees |-> None ]
       IN  IF dr.realized_pnl_today <= dr.daily_stop
           THEN /\ daily' = FlushDaily(dr, l.dr0, l.dr_new)
                /\ RiskBlock(sl, 409, "position.open.blocked.daily_stop")
                /\ UNCHANGED <<signals, positions, executed>>
           ELSE IF dr.trades_today >= dr.max_trades
           THEN /\ daily' = FlushDaily(dr, l.dr0, l.dr_new)
                /\ RiskBlock(sl, 409, "position.open.blocked.max_trades")
                /\ UNCHANGED <<signals, positions, executed>>
           ELSE /\ daily' = FlushDaily(dr, l.dr0, l.dr_new)
                /\ positions' = Append(positions, p)
                /\ signals' = [signals EXCEPT ![l.s.id].status = "OPENED"]
                /\ audit' = log_audit_event("position.open", u, Some(Len(positions) + 1),
                                           Some([signal_id |-> l.s.id, qty |-> req[sl].a.qty]))
                /\ executed' = Executed(u, OpenEndpoint, req[sl].key)
                /\ IF EffectiveKey(req[sl].key) = None
                   THEN Return(sl, 200, PositionOut(Len(positions) + 1, p))
                   ELSE /\ req' = Goto(sl, "store",
                                       [body |-> PositionOut(Len(positions) + 1, p)])
                        /\ UNCHANGED resp
    /\ UNCHANGED <<idem, conf, now>>

\* lines 197-205: store_idempotent_response, then the response
open_from_signal_store(sl) ==
    /\ At(sl, "open", "store")
    /\ LET stored == store_idempotent_response(req[sl].user, OpenEndpoint, req[sl].key,
                                               req[sl].a, req[sl].l.body)
       IN  /\ idem' = stored.idem
           /\ IF stored.raised
              THEN Return(sl, 500, "IntegrityError")
              ELSE Return(sl, 200, req[sl].l.body)
    /\ UNCHANGED <<signals, positions, daily, audit, conf, now, executed>>

----------------------------------------------------------------------------
(* POST /positions/close *)

\* The close behind the kill-switch, as the open is.
close_position_load_gated(u, position_id, exit_price, fees) ==
    /\ CanStart
    /\ LET a == [position_id |-> position_id, exit_price |-> exit_price, fees |-> fees] IN
       IF ~get_trading_enabled
       THEN /\ audit' = log_audit_event("execution.blocked.kill_switch", u, None, None)
            /\ resp' = Response("close", u, None, a, 409, "execution.blocked.kill_switch")
            /\ UNCHANGED req
       ELSE IF position_id \notin DOMAIN positions
       THEN /\ resp' = Response("close", u, None, a, 404, "Position not found")
            /\ UNCHANGED <<req, audit>>
       ELSE IF positions[position_id].user # u
       THEN /\ resp' = Response("close", u, None, a, 403,
                                 "Cannot close another user's position")
            /\ UNCHANGED <<req, audit>>
       ELSE IF positions[position_id].status # "OPEN"
       THEN /\ resp' = Response("close", u, None, a, 409, "Position status must be OPEN")
            /\ UNCHANGED <<req, audit>>
       ELSE /\ req' = Begin("close", u, None, "daily", a,
                    [ profile |-> resolve_risk_profile(u),
                      signal_id |-> positions[position_id].signal_id,
                      signal_status |-> signals[positions[position_id].signal_id].status,
                      realized_pnl |-> (exit_price - positions[position_id].entry_price)
                                          * positions[position_id].qty - fees,
                      closed_at |-> now ])
            /\ UNCHANGED <<resp, audit>>
    /\ UNCHANGED <<signals, positions, daily, idem, conf, now, executed>>

\* lines 232-252: the position, its checks, the PnL of a LONG and the signal
close_position_load(u, position_id, exit_price, fees) ==
    /\ CanStart
    /\ LET a == [position_id |-> position_id, exit_price |-> exit_price, fees |-> fees] IN
       IF position_id \notin DOMAIN positions
       THEN /\ resp' = Response("close", u, None, a, 404, "Position not found")
            /\ UNCHANGED req
       ELSE IF positions[position_id].user # u
       THEN /\ resp' = Response("close", u, None, a, 403,
                                 "Cannot close another user's position")
            /\ UNCHANGED req
       ELSE IF positions[position_id].status # "OPEN"
       THEN /\ resp' = Response("close", u, None, a, 409, "Position status must be OPEN")
            /\ UNCHANGED req
       ELSE /\ req' = Begin("close", u, None, "daily", a,
                    [ profile |-> resolve_risk_profile(u),
                      signal_id |-> positions[position_id].signal_id,
                      signal_status |-> signals[positions[position_id].signal_id].status,
                      realized_pnl |-> (exit_price - positions[position_id].entry_price)
                                          * positions[position_id].qty - fees,
                      closed_at |-> now ])
            /\ UNCHANGED resp
    /\ UNCHANGED <<signals, positions, daily, idem, audit, conf, now, executed>>

close_position_daily(sl) == SelectDailyStep(sl, "close")

close_position_daily_insert(sl) == InsertDailyStep(sl, "close")

\* lines 253-287: the writes of the session, the audit event, the commit
close_position_finish(sl) ==
    /\ At(sl, "close", "finish")
    /\ LET l == req[sl].l
           pid == req[sl].a.position_id
           limits == apply_profile_daily_limits(l.dr, l.profile)
           dr == [limits EXCEPT !.trades_today = @ + 1,
                                !.realized_pnl_today = @ + l.realized_pnl]
       IN  /\ positions' = [positions EXCEPT ![pid].fees = Some(req[sl].a.fees),
                                             ![pid].realized_pnl = Some(l.realized_pnl),
                                             ![pid].status = "CLOSED",
                                             ![pid].closed_at = Some(l.closed_at)]
           /\ signals' = IF l.signal_status # "COMPLETED"
                         THEN [signals EXCEPT ![l.signal_id].status = "COMPLETED"]
                         ELSE signals
           /\ daily' = FlushDaily(dr, l.dr0, l.dr_new)
           /\ audit' = log_audit_event("position.close", req[sl].user, Some(pid),
                                      Some([realized_pnl |-> l.realized_pnl,
                                            fees |-> req[sl].a.fees]))
           /\ Return(sl, 200, PositionOut(pid, positions'[pid]))
    /\ UNCHANGED <<idem, conf, now, executed>>

----------------------------------------------------------------------------
(* Strategy assignments and the pretrade checks. *)

DEFAULT_STRATEGY == "SWING_V1"

resolve_strategy_for_user_exchange(u, exchange) ==
    IF assignments[<<u, exchange>>] = None
    THEN [ exchange |-> exchange, strategy_id |-> DEFAULT_STRATEGY,
           enabled |-> TRUE, source |-> "default" ]
    ELSE [ exchange |-> exchange, strategy_id |-> Get(assignments[<<u, exchange>>]).strategy_id,
           enabled |-> Get(assignments[<<u, exchange>>]).enabled, source |-> "assignment" ]


is_exchange_enabled_for_user(u, exchange) ==
    resolve_strategy_for_user_exchange(u, exchange).enabled

Check(name, passed) == [name |-> name, passed |-> passed]

\* The strategy checks with a reward/risk estimate that must exceed the minimum.
_build_strategy_checks_rr_above(exchange, strategy_id, payload) ==
    LET intraday == strategy_id = "INTRADAY_V1"
        rr_min == IF intraday THEN 13 ELSE 15
        allowed_trend_tfs == IF intraday THEN {"1H"}
                             ELSE IF exchange = "IBKR" THEN {"1D", "4H"} ELSE {"4H"}
        allowed_signal_tfs == IF intraday THEN {"15M"}
                              ELSE IF exchange = "IBKR" THEN {"1H", "30M"} ELSE {"1H"}
        allowed_timing_tfs == IF intraday THEN {"5M", "15M"}
                              ELSE IF exchange = "IBKR" THEN {"5M", "15M"} ELSE {"15M"}
        min_volume == IF intraday THEN 80 ELSE 50
        max_spread == IF intraday THEN 8 ELSE 10
        max_slippage == IF intraday THEN 12 ELSE 15
    IN  << Check("strategy_rr_min", payload.rr_estimate > rr_min),
           Check("strategy_trend_tf", payload.trend_tf \in allowed_trend_tfs),
           Check("strategy_signal_tf", payload.signal_tf \in allowed_signal_tfs),
           Check("strategy_timing_tf", payload.timing_tf \in allowed_timing_tfs) >>
        \o (IF exchange = "BINANCE"
            THEN << Check("liq_volume_24h", payload.volume_24h_usdt >= min_volume),
                    Check("liq_spread_bps", payload.spread_bps <= max_spread),
                    Check("liq_slippage_bps", payload.slippage_bps <= max_slippage) >>
            ELSE << Check("ibkr_in_rth", payload.in_rth),
                    Check("ibkr_no_macro_block", ~payload.macro_event_block),
                    Check("ibkr_no_earnings_24h", ~payload.earnings_within_24h) >>)

\* The strategy checks with the swing liquidity thresholds for every strategy.
_build_strategy_checks_one_liquidity(exchange, strategy_id, payload) ==
    LET intraday == strategy_id = "INTRADAY_V1"
        rr_min == IF intraday THEN 13 ELSE 15
        allowed_trend_tfs == IF intraday THEN {"1H"}
                             ELSE IF exchange = "IBKR" THEN {"1D", "4H"} ELSE {"4H"}
        allowed_signal_tfs == IF intraday THEN {"15M"}
                              ELSE IF exchange = "IBKR" THEN {"1H", "30M"} ELSE {"1H"}
        allowed_timing_tfs == IF intraday THEN {"5M", "15M"}
                              ELSE IF exchange = "IBKR" THEN {"5M", "15M"} ELSE {"15M"}
        min_volume == 50
        max_spread == 10
        max_slippage == 15
    IN  << Check("strategy_rr_min", payload.rr_estimate >= rr_min),
           Check("strategy_trend_tf", payload.trend_tf \in allowed_trend_tfs),
           Check("strategy_signal_tf", payload.signal_tf \in allowed_signal_tfs),
           Check("strategy_timing_tf", payload.timing_tf \in allowed_timing_tfs) >>
        \o (IF exchange = "BINANCE"
            THEN << Check("liq_volume_24h", payload.volume_24h_usdt >= min_volume),
                    Check("liq_spread_bps", payload.spread_bps <= max_spread),
                    Check("liq_slippage_bps", payload.slippage_bps <= max_slippage) >>
            ELSE << Check("ibkr_in_rth", payload.in_rth),
                    Check("ibkr_no_macro_block", ~payload.macro_event_block),
                    Check("ibkr_no_earnings_24h", ~payload.earnings_within_24h) >>)

\* rr in tenths, volume in millions, spread and slippage in basis points
_build_strategy_checks(exchange, strategy_id, payload) ==
    LET intraday == strategy_id = "INTRADAY_V1"
        rr_min == IF intraday THEN 13 ELSE 15
        allowed_trend_tfs == IF intraday THEN {"1H"}
                             ELSE IF exchange = "IBKR" THEN {"1D", "4H"} ELSE {"4H"}
        allowed_signal_tfs == IF intraday THEN {"15M"}
                              ELSE IF exchange = "IBKR" THEN {"1H", "30M"} ELSE {"1H"}
        allowed_timing_tfs == IF intraday THEN {"5M", "15M"}
                              ELSE IF exchange = "IBKR" THEN {"5M", "15M"} ELSE {"15M"}
        min_volume == IF intraday THEN 80 ELSE 50
        max_spread == IF intraday THEN 8 ELSE 10
        max_slippage == IF intraday THEN 12 ELSE 15
    IN  << Check("strategy_rr_min", payload.rr_estimate >= rr_min),
           Check("strategy_trend_tf", payload.trend_tf \in allowed_trend_tfs),
           Check("strategy_signal_tf", payload.signal_tf \in allowed_signal_tfs),
           Check("strategy_timing_tf", payload.timing_tf \in allowed_timing_tfs) >>
        \o (IF exchange = "BINANCE"
            THEN << Check("liq_volume_24h", payload.volume_24h_usdt >= min_volume),
                    Check("liq_spread_bps", payload.spread_bps <= max_spread),
                    Check("liq_slippage_bps", payload.slippage_bps <= max_slippage) >>
            ELSE << Check("ibkr_in_rth", payload.in_rth),
                    Check("ibkr_no_macro_block", ~payload.macro_event_block),
                    Check("ibkr_no_earnings_24h", ~payload.earnings_within_24h) >>)

\* The evaluation that stops at the first failing check.
_evaluate_pretrade_for_user_short_circuit(u, exchange, payload) ==
    LET strategy == resolve_strategy_for_user_exchange(u, exchange)
        profile == resolve_risk_profile(u)
        dr == SelectDaily(u, today_colombia)
        max_trades == profile.max_trades_per_day
        daily_stop == -Abs(profile.max_daily_loss_pct)
        trades_today == IF IsSome(dr) THEN Get(dr).trades_today ELSE 0
        realized_pnl_today == IF IsSome(dr) THEN Get(dr).realized_pnl_today ELSE 0
        last == last_trade_at(u)
        cooldown_passed == IF IsSome(last)
                           THEN now - Get(last) >= profile.cooldown_between_trades_minutes
                           ELSE TRUE
        every ==
            << Check("strategy_enabled", strategy.enabled),
               Check("exchange_secret_configured", <<u, exchange>> \in secrets),
               Check("daily_stop_not_reached", realized_pnl_today > daily_stop),
               Check("max_trades_not_reached", trades_today < max_trades),
               Check("max_open_positions_not_reached",
                     Cardinality(OpenPositions(u)) < profile.max_open_positions),
               Check("cooldown_passed", cooldown_passed) >>
            \o _build_strategy_checks(exchange, strategy.strategy_id, payload)
        failing == { i \in DOMAIN every : ~every[i].passed }
        checks == IF failing = {} THEN every
                  ELSE SubSeq(every, 1, CHOOSE i \in failing : \A j \in failing : i <= j)
    IN  [ passed |-> \A i \in DOMAIN checks : checks[i].passed,
          exchange |-> exchange,
          strategy_id |-> strategy.strategy_id,
          strategy_source |-> strategy.source,
          risk_profile |-> profile.profile_name,
          checks |-> checks ]

_evaluate_pretrade_for_user(u, exchange, payload) ==
    LET strategy == resolve_strategy_for_user_exchange(u, exchange)
        profile == resolve_risk_profile(u)
        dr == SelectDaily(u, today_colombia)
        max_trades == profile.max_trades_per_day
        daily_stop == -Abs(profile.max_daily_loss_pct)
        trades_today == IF IsSome(dr) THEN Get(dr).trades_today ELSE 0
        realized_pnl_today == IF IsSome(dr) THEN Get(dr).realized_pnl_today ELSE 0
        last == last_trade_at(u)
        cooldown_passed == IF IsSome(last)
                           THEN now - Get(last) >= profile.cooldown_between_trades_minutes
                           ELSE TRUE
        checks ==
            << Check("strategy_enabled", strategy.enabled),
               Check("exchange_secret_configured", <<u, exchange>> \in secrets),
               Check("daily_stop_not_reached", realized_pnl_today > daily_stop),
               Check("max_trades_not_reached", trades_today < max_trades),
               Check("max_open_positions_not_reached",
                     Cardinality(OpenPositions(u)) < profile.max_open_positions),
               Check("cooldown_passed", cooldown_passed) >>
            \o _build_strategy_checks(exchange, strategy.strategy_id, payload)
    IN  [ passed |-> \A i \in DOMAIN checks : checks[i].passed,
          exchange |-> exchange,
          strategy_id |-> strategy.strategy_id,
          strategy_source |-> strategy.source,
          risk_profile |-> profile.profile_name,
          checks |-> checks ]

PretradePayload(qty) ==
    [ symbol |-> <<"BTC", "USDT">>, side |-> "BUY", qty |-> qty, rr_estimate |-> 16,
      trend_tf |-> "4H", signal_tf |-> "1H", timing_tf |-> "15M", spread_bps |-> 7,
      slippage_bps |-> 10, volume_24h_usdt |-> 90, in_rth |-> TRUE,
      macro_event_block |-> FALSE, earnings_within_24h |-> FALSE ]

PretradePayloads == { PretradePayload(q) : q \in QtySet }

PretradeEndpoint(exchange) ==
    IF exchange = "BINANCE" THEN "/ops/execution/pretrade/binance/check"
    ELSE "/ops/execution/pretrade/ibkr/check"

----------------------------------------------------------------------------
(* POST /ops/execution/pretrade/{binance,ibkr}/check *)

\* assert_trading_enabled comes first
pretrade_check_kill(u, exchange, payload, key) ==
    /\ CanStart
    /\ IF get_trading_enabled
       THEN /\ req' = Begin("pretrade", u, key, "exposure",
                            [exchange |-> exchange, payload |-> payload], <<>>)
            /\ UNCHANGED <<audit, resp>>
       ELSE /\ audit' = log_audit_event("execution.blocked.kill_switch", u, None, None)
            /\ resp' = Response("pretrade", u, key,
                                 [exchange |-> exchange, payload |-> payload],
                                 409, "execution.blocked.kill_switch")
            /\ UNCHANGED req
    /\ UNCHANGED <<signals, positions, daily, idem, conf, now, executed>>

(* PretradeCheckRequest: what pydantic does to the body before the handler runs *)

\* value.upper().strip(), over the spellings the requests below use
UpperStrip(value) ==
    CASE value = "4h" -> "4H"
      [] value = " 1h " -> "1H"
      [] value = "sell" -> "SELL"
      [] value = " buy" -> "BUY"
      [] OTHER -> value

\* validate_side: the normalised side, or no value when it is neither BUY nor SELL
validate_side(value) ==
    IF UpperStrip(value) \in { "BUY", "SELL" } THEN Some(UpperStrip(value)) ELSE None

\* normalize_tf: any string is taken
normalize_tf(value) == UpperStrip(value)

\* the validated request, or no value for a validation error
PretradeCheckRequest(body) ==
    IF validate_side(body.side) = None THEN None
    ELSE Some([body EXCEPT !.side = Get(validate_side(body.side)),
                           !.trend_tf = normalize_tf(body.trend_tf),
                           !.signal_tf = normalize_tf(body.signal_tf),
                           !.timing_tf = normalize_tf(body.timing_tf)])

\* The body is validated before the handler is entered: 422 and nothing else,
\* or the handler with the validated request.
pretrade_check_request(u, exchange, body, key) ==
    IF PretradeCheckRequest(body) = None
    THEN /\ CanStart
         /\ resp' = Response("pretrade", u, key, [exchange |-> exchange, payload |-> body],
                             422, "validation error")
         /\ UNCHANGED <<signals, positions, daily, idem, audit, conf, now, req, executed>>
    ELSE pretrade_check_kill(u, exchange, Get(PretradeCheckRequest(body)), key)

\* then assert_exposure_limits, with a price estimate of 0
pretrade_check_exposure(sl) ==
    /\ At(sl, "pretrade", "exposure")
    /\ LET verdict == assert_exposure_limits(req[sl].user, req[sl].a.exchange,
                          req[sl].a.payload.symbol, req[sl].a.payload.qty, 0)
       IN  IF verdict = "ok"
           THEN /\ req' = Goto(sl, "consume", <<>>)
                /\ UNCHANGED <<audit, resp>>
           ELSE RiskBlock(sl, 409, verdict)
    /\ UNCHANGED <<signals, positions, daily, idem, conf, now, executed>>

\* then the replay check
pretrade_check_consume(sl) ==
    /\ At(sl, "pretrade", "consume")
    /\ LET cached == consume_idempotent_response(req[sl].user,
                         PretradeEndpoint(req[sl].a.exchange), req[sl].key, req[sl].a.payload)
       IN  IF cached.outcome = "hit"
           THEN ReturnCached(sl, Get(cached.response))
           ELSE IF cached.outcome = "conflict"
           THEN Return(sl, 409, "Idempotency key already used with different payload")
           ELSE /\ req' = Goto(sl, "evaluate", <<>>)
                /\ UNCHANGED resp
    /\ UNCHANGED <<signals, positions, daily, idem, audit, conf, now, executed>>

\* The evaluation that creates the row of the day when there is none, as the
\* open and the close do.
pretrade_check_evaluate_row_created(sl) ==
    /\ At(sl, "pretrade", "evaluate")
    /\ LET u == req[sl].user
           result == _evaluate_pretrade_for_user(u, req[sl].a.exchange, req[sl].a.payload)
       IN  /\ audit' = log_audit_event(IF result.passed THEN "pretrade.check.passed"
                                       ELSE "pretrade.check.blocked", u, None,
                                       Some([checks |-> result.checks]))
           /\ daily' = IF DailyRows(u, today_colombia) = {}
                       THEN Append(daily, DailyRow(NewDailyRiskState(u, today_colombia)))
                       ELSE daily
           /\ executed' = Executed(u, PretradeEndpoint(req[sl].a.exchange), req[sl].key)
           /\ IF EffectiveKey(req[sl].key) = None
              THEN Return(sl, 200, result)
              ELSE /\ req' = Goto(sl, "store", [body |-> result])
                   /\ UNCHANGED resp
    /\ UNCHANGED <<signals, positions, idem, conf, now>>

\* The evaluation that returns its result without the audit event.
pretrade_check_evaluate_unaudited(sl) ==
    /\ At(sl, "pretrade", "evaluate")
    /\ LET u == req[sl].user
           result == _evaluate_pretrade_for_user(u, req[sl].a.exchange, req[sl].a.payload)
       IN  /\ executed' = Executed(u, PretradeEndpoint(req[sl].a.exchange), req[sl].key)
           /\ IF EffectiveKey(req[sl].key) = None
              THEN Return(sl, 200, result)
              ELSE /\ req' = Goto(sl, "store", [body |-> result])
                   /\ UNCHANGED resp
    /\ UNCHANGED <<signals, positions, daily, idem, audit, conf, now>>

\* _evaluate_pretrade_for_user: the checks, the audit event, the commit
pretrade_check_evaluate(sl) ==
    /\ At(sl, "pretrade", "evaluate")
    /\ LET u == req[sl].user
           result == _evaluate_pretrade_for_user(u, req[sl].a.exchange, req[sl].a.payload)
       IN  /\ audit' = log_audit_event(IF result.passed THEN "pretrade.check.passed"
                                       ELSE "pretrade.check.blocked", u, None,
                                       Some([checks |-> result.checks]))
           /\ executed' = Executed(u, PretradeEndpoint(req[sl].a.exchange), req[sl].key)
           /\ IF EffectiveKey(req[sl].key) = None
              THEN Return(sl, 200, result)
              ELSE /\ req' = Goto(sl, "store", [body |-> result])
                   /\ UNCHANGED resp
    /\ UNCHANGED <<signals, positions, daily, idem, conf, now>>

\* store_idempotent_response, then the response
pretrade_check_store(sl) ==
    /\ At(sl, "pretrade", "store")
    /\ LET stored == store_idempotent_response(req[sl].user,
                         PretradeEndpoint(req[sl].a.exchange), req[sl].key,
                         req[sl].a.payload, req[sl].l.body)
       IN  /\ idem' = stored.idem
           /\ IF stored.raised
              THEN Return(sl, 500, "IntegrityError")
              ELSE Return(sl, 200, req[sl].l.body)
    /\ UNCHANGED <<signals, positions, daily, audit, conf, now, executed>>

----------------------------------------------------------------------------
(* POST /ops/strategy/assign *)

\* upsert_strategy_assignment, the audit event, the commit
assign_strategy(u, exchange, strategy_id, enabled) ==
    /\ CanStart
    /\ assignments' = [assignments EXCEPT ![<<u, exchange>>] =
                          Some([strategy_id |-> strategy_id, enabled |-> enabled])]
    /\ audit' = log_audit_event("strategy.assignment.updated", "admin", None,
                                Some([target_user_id |-> u, exchange |-> exchange,
                                      strategy_id |-> strategy_id, enabled |-> enabled]))
    /\ resp' = Response("assign_strategy", "admin", None,
                        [user |-> u, exchange |-> exchange, strategy_id |-> strategy_id,
                         enabled |-> enabled],
                        200, [user_id |-> u, exchange |-> exchange,
                              strategy_id |-> strategy_id, enabled |-> enabled])
    /\ UNCHANGED <<signals, positions, daily, idem, trading, override, secrets, cfg, auth,
                   now, req, executed>>

----------------------------------------------------------------------------
(* POST /ops/execution/{binance,ibkr}/test-order *)

TestOrderPayload(qty) == [ symbol |-> <<"BTC", "USDT">>, side |-> "BUY", qty |-> qty ]

TestOrderEndpoint(exchange) ==
    IF exchange = "BINANCE" THEN "/ops/execution/binance/test-order"
    ELSE "/ops/execution/ibkr/test-order"

\* what the adapter can raise, as the text of the exception
AdapterErrors == { "timeout", "rejected" }

\* the detail of the 502: "... test order failed: {exc}"
TestOrderFailed(error) ==
    IF error = "timeout" THEN "test order failed: timeout" ELSE "test order failed: rejected"

\* The test order without its kill-switch check.
execution_test_order_kill_skipped(u, exchange, payload, key) ==
    /\ CanStart
    /\ req' = Begin("test_order", u, key, "enabled",
                    [exchange |-> exchange, payload |-> payload], <<>>)
    /\ UNCHANGED <<signals, positions, daily, idem, audit, resp, conf, now, executed>>

\* assert_trading_enabled comes first
execution_test_order_kill(u, exchange, payload, key) ==
    /\ CanStart
    /\ IF get_trading_enabled
       THEN /\ req' = Begin("test_order", u, key, "enabled",
                            [exchange |-> exchange, payload |-> payload], <<>>)
            /\ UNCHANGED <<audit, resp>>
       ELSE /\ audit' = log_audit_event("execution.blocked.kill_switch", u, None, None)
            /\ resp' = Response("test_order", u, key,
                                 [exchange |-> exchange, payload |-> payload],
                                 409, "execution.blocked.kill_switch")
            /\ UNCHANGED req
    /\ UNCHANGED <<signals, positions, daily, idem, conf, now, executed>>

\* _assert_exchange_enabled: the audit event, the commit, 403
execution_test_order_enabled(sl) ==
    /\ At(sl, "test_order", "enabled")
    /\ IF is_exchange_enabled_for_user(req[sl].user, req[sl].a.exchange)
       THEN /\ req' = Goto(sl, "exposure", <<>>)
            /\ UNCHANGED <<audit, resp>>
       ELSE RiskBlock(sl, 403, "execution.blocked.exchange_disabled")
    /\ UNCHANGED <<signals, positions, daily, idem, conf, now, executed>>

\* assert_exposure_limits, with a price estimate of 0
execution_test_order_exposure(sl) ==
    /\ At(sl, "test_order", "exposure")
    /\ LET verdict == assert_exposure_limits(req[sl].user, req[sl].a.exchange,
                          req[sl].a.payload.symbol, req[sl].a.payload.qty, 0)
       IN  IF verdict = "ok"
           THEN /\ req' = Goto(sl, "consume", <<>>)
                /\ UNCHANGED <<audit, resp>>
           ELSE RiskBlock(sl, 409, verdict)
    /\ UNCHANGED <<signals, positions, daily, idem, conf, now, executed>>

\* the replay check
execution_test_order_consume(sl) ==
    /\ At(sl, "test_order", "consume")
    /\ LET cached == consume_idempotent_response(req[sl].user,
                         TestOrderEndpoint(req[sl].a.exchange), req[sl].key,
                         req[sl].a.payload)
       IN  IF cached.outcome = "hit"
           THEN ReturnCached(sl, Get(cached.response))
           ELSE IF cached.outcome = "conflict"
           THEN Return(sl, 409, "Idempotency key already used with different payload")
           ELSE /\ req' = Goto(sl, "execute", <<>>)
                /\ UNCHANGED resp
    /\ UNCHANGED <<signals, positions, daily, idem, audit, conf, now, executed>>

\* The execution that hides a failure of the adapter: no audit event, and a
\* result that is stored like any other.
execution_test_order_execute_failure_hidden(sl) ==
    /\ At(sl, "test_order", "execute")
    /\ LET u == req[sl].user
           exchange == req[sl].a.exchange
           payload == req[sl].a.payload
           result(sent) == [ exchange |-> exchange, symbol |-> UpperSym(payload.symbol),
                             side |-> payload.side, qty |-> payload.qty, sent |-> sent ]
       IN  IF <<u, exchange>> \notin secrets
           THEN /\ Return(sl, 400, "Missing credentials")
                /\ UNCHANGED <<audit, executed>>
           ELSE \E outcome \in { "sent" } \cup AdapterErrors :
                  /\ audit' = IF outcome = "sent"
                              THEN log_audit_event(
                                       IF exchange = "BINANCE"
                                       THEN "execution.binance.test_order.success"
                                       ELSE "execution.ibkr.test_order.success", u, None,
                                       Some([symbol |-> payload.symbol, qty |-> payload.qty]))
                              ELSE audit
                  /\ executed' = Executed(u, TestOrderEndpoint(exchange), req[sl].key)
                  /\ IF EffectiveKey(req[sl].key) = None
                     THEN Return(sl, 200, result(outcome = "sent"))
                     ELSE /\ req' = Goto(sl, "store", [body |-> result(outcome = "sent")])
                          /\ UNCHANGED resp
    /\ UNCHANGED <<signals, positions, daily, idem, conf, now>>

\* execute_*_test_order_for_user, in a session of its own: the credentials, the
\* call to the exchange (it succeeds or fails), the audit event, the commit
execution_test_order_execute(sl) ==
    /\ At(sl, "test_order", "execute")
    /\ LET u == req[sl].user
           exchange == req[sl].a.exchange
           payload == req[sl].a.payload
           action(outcome) == IF exchange = "BINANCE"
                              THEN IF outcome = "success"
                                   THEN "execution.binance.test_order.success"
                                   ELSE "execution.binance.test_order.error"
                              ELSE IF outcome = "success"
                                   THEN "execution.ibkr.test_order.success"
                                   ELSE "execution.ibkr.test_order.error"
           result == [ exchange |-> exchange, symbol |-> UpperSym(payload.symbol),
                       side |-> payload.side, qty |-> payload.qty, sent |-> TRUE ]
       IN  IF <<u, exchange>> \notin secrets
           THEN /\ Return(sl, 400, "Missing credentials")
                /\ UNCHANGED <<audit, executed>>
           ELSE \E outcome \in { "sent" } \cup AdapterErrors :
                  IF outcome = "sent"
                  THEN /\ audit' = log_audit_event(action("success"), u, None,
                                        Some([symbol |-> payload.symbol, qty |-> payload.qty]))
                       /\ executed' = Executed(u, TestOrderEndpoint(exchange), req[sl].key)
                       /\ IF EffectiveKey(req[sl].key) = None
                          THEN Return(sl, 200, result)
                          ELSE /\ req' = Goto(sl, "store", [body |-> result])
                               /\ UNCHANGED resp
                  ELSE /\ audit' = log_audit_event(action("error"), u, None,
                                        Some([symbol |-> payload.symbol, qty |-> payload.qty,
                                              error |-> outcome]))
                       /\ Return(sl, 502, TestOrderFailed(outcome))
                       /\ UNCHANGED executed
    /\ UNCHANGED <<signals, positions, daily, idem, conf, now>>

\* store_idempotent_response, then the response
execution_test_order_store(sl) ==
    /\ At(sl, "test_order", "store")
    /\ LET stored == store_idempotent_response(req[sl].user,
                         TestOrderEndpoint(req[sl].a.exchange), req[sl].key,
                         req[sl].a.payload, req[sl].l.body)
       IN  /\ idem' = stored.idem
           /\ IF stored.raised
              THEN Return(sl, 500, "IntegrityError")
              ELSE Return(sl, 200, req[sl].l.body)
    /\ UNCHANGED <<signals, positions, daily, audit, conf, now, executed>>

----------------------------------------------------------------------------
(* POST /ops/exit/{binance,ibkr}/check *)

Dedup(seq) == SelectSeq([i \in DOMAIN seq |-> IF \E j \in 1..(i - 1) : seq[j] = seq[i]
                                               THEN "" ELSE seq[i]],
                        LAMBDA r : r # "")

\* The exit checks with the flag reasons collected before the price reasons.
_build_exit_checks_flags_first(exchange, strategy_id, payload) ==
    LET sl_hit == IF payload.side = "BUY" THEN payload.current_price <= payload.stop_loss
                  ELSE payload.current_price >= payload.stop_loss
        tp_hit == IF payload.side = "BUY" THEN payload.current_price >= payload.take_profit
                  ELSE payload.current_price <= payload.take_profit
        max_hold_minutes == IF strategy_id = "INTRADAY_V1" THEN 240 ELSE 480
        timeout == payload.opened_minutes >= max_hold_minutes
        event_forced_exit == payload.macro_event_block \/ payload.earnings_within_24h
        checks == << Check("exit_stop_loss_hit", sl_hit),
                     Check("exit_take_profit_hit", tp_hit),
                     Check("exit_time_limit", timeout),
                     Check("exit_trend_break", payload.trend_break),
                     Check("exit_signal_reverse", payload.signal_reverse) >>
                  \o (IF exchange = "IBKR"
                      THEN << Check("exit_event_risk", event_forced_exit) >> ELSE <<>>)
        reasons == (IF payload.trend_break THEN << "trend_break" >> ELSE <<>>)
                   \o (IF payload.signal_reverse THEN << "signal_reverse" >> ELSE <<>>)
                   \o (IF sl_hit THEN << "stop_loss_hit" >> ELSE <<>>)
                   \o (IF tp_hit THEN << "take_profit_hit" >> ELSE <<>>)
                   \o (IF timeout THEN << "time_limit_reached" >> ELSE <<>>)
                   \o (IF exchange = "IBKR" /\ event_forced_exit
                       THEN << "event_risk_exit" >> ELSE <<>>)
    IN  [ checks |-> checks, reasons |-> Dedup(reasons) ]

\* The exit checks with the comparisons of a long position for either side.
_build_exit_checks_long_only(exchange, strategy_id, payload) ==
    LET sl_hit == payload.current_price <= payload.stop_loss
        tp_hit == payload.current_price >= payload.take_profit
        max_hold_minutes == IF strategy_id = "INTRADAY_V1" THEN 240 ELSE 480
        timeout == payload.opened_minutes >= max_hold_minutes
        event_forced_exit == payload.macro_event_block \/ payload.earnings_within_24h
        checks == << Check("exit_stop_loss_hit", sl_hit),
                     Check("exit_take_profit_hit", tp_hit),
                     Check("exit_time_limit", timeout),
                     Check("exit_trend_break", payload.trend_break),
                     Check("exit_signal_reverse", payload.signal_reverse) >>
                  \o (IF exchange = "IBKR"
                      THEN << Check("exit_event_risk", event_forced_exit) >> ELSE <<>>)
        reasons == (IF sl_hit THEN << "stop_loss_hit" >> ELSE <<>>)
                   \o (IF tp_hit THEN << "take_profit_hit" >> ELSE <<>>)
                   \o (IF timeout THEN << "time_limit_reached" >> ELSE <<>>)
                   \o (IF payload.trend_break THEN << "trend_break" >> ELSE <<>>)
                   \o (IF payload.signal_reverse THEN << "signal_reverse" >> ELSE <<>>)
                   \o (IF exchange = "IBKR" /\ event_forced_exit
                       THEN << "event_risk_exit" >> ELSE <<>>)
    IN  [ checks |-> checks, reasons |-> Dedup(reasons) ]

\* The exit checks with the event check on every exchange.
_build_exit_checks_event_everywhere(exchange, strategy_id, payload) ==
    LET sl_hit == IF payload.side = "BUY" THEN payload.current_price <= payload.stop_loss
                  ELSE payload.current_price >= payload.stop_loss
        tp_hit == IF payload.side = "BUY" THEN payload.current_price >= payload.take_profit
                  ELSE payload.current_price <= payload.take_profit
        max_hold_minutes == IF strategy_id = "INTRADAY_V1" THEN 240 ELSE 480
        timeout == payload.opened_minutes >= max_hold_minutes
        event_forced_exit == payload.macro_event_block \/ payload.earnings_within_24h
        checks == << Check("exit_stop_loss_hit", sl_hit),
                     Check("exit_take_profit_hit", tp_hit),
                     Check("exit_time_limit", timeout),
                     Check("exit_trend_break", payload.trend_break),
                     Check("exit_signal_reverse", payload.signal_reverse),
                     Check("exit_event_risk", event_forced_exit) >>
        reasons == (IF sl_hit THEN << "stop_loss_hit" >> ELSE <<>>)
                   \o (IF tp_hit THEN << "take_profit_hit" >> ELSE <<>>)
                   \o (IF timeout THEN << "time_limit_reached" >> ELSE <<>>)
                   \o (IF payload.trend_break THEN << "trend_break" >> ELSE <<>>)
                   \o (IF payload.signal_reverse THEN << "signal_reverse" >> ELSE <<>>)
                   \o (IF event_forced_exit THEN << "event_risk_exit" >> ELSE <<>>)
    IN  [ checks |-> checks, reasons |-> Dedup(reasons) ]

_build_exit_checks(exchange, strategy_id, payload) ==
    LET sl_hit == IF payload.side = "BUY" THEN payload.current_price <= payload.stop_loss
                  ELSE payload.current_price >= payload.stop_loss
        tp_hit == IF payload.side = "BUY" THEN payload.current_price >= payload.take_profit
                  ELSE payload.current_price <= payload.take_profit
        max_hold_minutes == IF strategy_id = "INTRADAY_V1" THEN 240 ELSE 480
        timeout == payload.opened_minutes >= max_hold_minutes
        event_forced_exit == payload.macro_event_block \/ payload.earnings_within_24h
        checks == << Check("exit_stop_loss_hit", sl_hit),
                     Check("exit_take_profit_hit", tp_hit),
                     Check("exit_time_limit", timeout),
                     Check("exit_trend_break", payload.trend_break),
                     Check("exit_signal_reverse", payload.signal_reverse) >>
                  \o (IF exchange = "IBKR"
                      THEN << Check("exit_event_risk", event_forced_exit) >> ELSE <<>>)
        reasons == (IF sl_hit THEN << "stop_loss_hit" >> ELSE <<>>)
                   \o (IF tp_hit THEN << "take_profit_hit" >> ELSE <<>>)
                   \o (IF timeout THEN << "time_limit_reached" >> ELSE <<>>)
                   \o (IF payload.trend_break THEN << "trend_break" >> ELSE <<>>)
                   \o (IF payload.signal_reverse THEN << "signal_reverse" >> ELSE <<>>)
                   \o (IF exchange = "IBKR" /\ event_forced_exit
                       THEN << "event_risk_exit" >> ELSE <<>>)
    IN  [ checks |-> checks, reasons |-> Dedup(reasons) ]

ExitPayload(current_price, opened_minutes) ==
    [ symbol |-> <<"BTC", "USDT">>, side |-> "BUY", entry_price |-> 1000,
      current_price |-> current_price, stop_loss |-> 950, take_profit |-> 1100,
      opened_minutes |-> opened_minutes, trend_break |-> FALSE, signal_reverse |-> FALSE,
      macro_event_block |-> FALSE, earnings_within_24h |-> FALSE ]

\* _assert_exchange_enabled comes first
exit_check_enabled(u, exchange, payload) ==
    /\ CanStart
    /\ IF is_exchange_enabled_for_user(u, exchange)
       THEN /\ req' = Begin("exit_check", u, None, "evaluate",
                            [exchange |-> exchange, payload |-> payload], <<>>)
            /\ UNCHANGED <<audit, resp>>
       ELSE /\ audit' = log_audit_event("execution.blocked.exchange_disabled", u, None, None)
            /\ resp' = Response("exit_check", u, None,
                                 [exchange |-> exchange, payload |-> payload],
                                 403, "execution.blocked.exchange_disabled")
            /\ UNCHANGED req
    /\ UNCHANGED <<signals, positions, daily, idem, conf, now, executed>>

\* The exit evaluation that always logs a hold.
exit_check_evaluate_hold_logged(sl) ==
    /\ At(sl, "exit_check", "evaluate")
    /\ LET strategy == resolve_strategy_for_user_exchange(req[sl].user, req[sl].a.exchange)
           built == _build_exit_checks(req[sl].a.exchange, strategy.strategy_id,
                                       req[sl].a.payload)
           should_exit == Len(built.reasons) > 0
       IN  /\ audit' = log_audit_event("exit.check.hold",
                                       req[sl].user, None,
                                       Some([exchange |-> req[sl].a.exchange,
                                             should_exit |-> should_exit,
                                             reasons |-> built.reasons]))
           /\ Return(sl, 200, [ should_exit |-> should_exit,
                                exchange |-> req[sl].a.exchange,
                                strategy_id |-> strategy.strategy_id,
                                strategy_source |-> strategy.source,
                                reasons |-> built.reasons,
                                checks |-> built.checks ])
    /\ UNCHANGED <<signals, positions, daily, idem, conf, now, executed>>

\* the strategy, the checks, the audit event, the commit
exit_check_evaluate(sl) ==
    /\ At(sl, "exit_check", "evaluate")
    /\ LET strategy == resolve_strategy_for_user_exchange(req[sl].user, req[sl].a.exchange)
           built == _build_exit_checks(req[sl].a.exchange, strategy.strategy_id,
                                       req[sl].a.payload)
           should_exit == Len(built.reasons) > 0
       IN  /\ audit' = log_audit_event(IF should_exit THEN "exit.check.triggered"
                                       ELSE "exit.check.hold",
                                       req[sl].user, None,
                                       Some([exchange |-> req[sl].a.exchange,
                                             should_exit |-> should_exit,
                                             reasons |-> built.reasons]))
           /\ Return(sl, 200, [ should_exit |-> should_exit,
                                exchange |-> req[sl].a.exchange,
                                strategy_id |-> strategy.strategy_id,
                                strategy_source |-> strategy.source,
                                reasons |-> built.reasons,
                                checks |-> built.checks ])
    /\ UNCHANGED <<signals, positions, daily, idem, conf, now, executed>>

----------------------------------------------------------------------------
(* PUT /users/{user_id}/risk-profile and GET /positions/risk/today *)

list_profile_names == { PROFILE_MODEL2.profile_name, PROFILE_LOOSE.profile_name }

\* The override row is set, replaced or (empty name) deleted; audit; commit.
set_user_risk_profile(u, profile_name) ==
    /\ CanStart
    /\ LET a == [user_id |-> u, profile_name |-> profile_name] IN
       IF profile_name # "" /\ profile_name \notin list_profile_names
       THEN /\ resp' = Response("risk_profile", "admin", None, a, 400,
                                 "profile_name must be one of the profile names")
            /\ UNCHANGED <<override, audit>>
       ELSE /\ override' = [override EXCEPT ![u] = IF profile_name = "" THEN None
                                                    ELSE Some(profile_name)]
            /\ audit' = log_audit_event(
                            IF profile_name # "" THEN "user.risk_profile.override.set"
                            ELSE IF IsSome(override[u])
                            THEN "user.risk_profile.override.cleared"
                            ELSE "user.risk_profile.override.noop",
                            "admin", None, Some([profile_name |-> profile_name]))
            /\ resp' = Response("risk_profile", "admin", None, a, 200,
                                 [ id |-> u,
                                   risk_profile |->
                                       (IF profile_name = ""
                                        THEN resolve_risk_profile_for_email(Email(u))
                                        ELSE ProfileByName(profile_name)).profile_name,
                                   risk_profile_source |->
                                       IF profile_name = "" THEN "default" ELSE "override" ])
    /\ UNCHANGED <<signals, positions, daily, idem, trading, assignments, secrets, cfg, auth,
                   now, req, executed>>

\* The profile, today's row; without a row the profile's figures are returned
\* and nothing is written; with one, apply_profile_daily_limits and the commit.
get_today_risk(u) ==
    /\ CanStart
    /\ LET profile == resolve_risk_profile(u)
           today == today_colombia
           found == SelectDaily(u, today)
           dr == apply_profile_daily_limits(Get(found), profile)
       IN  IF found = None
           THEN /\ resp' = Response("risk_today", u, None, None, 200,
                       [ user_id |-> u, day |-> today,
                         risk_profile |-> profile.profile_name,
                         trades_today |-> 0, realized_pnl_today |-> 0,
                         daily_stop |-> -Abs(profile.max_daily_loss_pct),
                         max_trades |-> profile.max_trades_per_day,
                         remaining_trades |-> profile.max_trades_per_day,
                         remaining_loss_buffer |-> -Abs(profile.max_daily_loss_pct) ])
                /\ UNCHANGED daily
           ELSE /\ daily' = FlushDaily(dr, Get(found), FALSE)
                /\ resp' = Response("risk_today", u, None, None, 200,
                       [ user_id |-> u, day |-> dr.day,
                         risk_profile |-> profile.profile_name,
                         trades_today |-> dr.trades_today,
                         realized_pnl_today |-> dr.realized_pnl_today,
                         daily_stop |-> dr.daily_stop,
                         max_trades |-> dr.max_trades,
                         remaining_trades |-> dr.max_trades - dr.trades_today,
                         remaining_loss_buffer |-> dr.daily_stop - dr.realized_pnl_today ])
    /\ UNCHANGED <<signals, positions, idem, audit, conf, now, req, executed>>

----------------------------------------------------------------------------
(* The steps of the handlers in flight. *)

OpenStep(sl) ==
    \/ open_from_signal_signal(sl)
    \/ open_from_signal_kill(sl)
    \/ open_from_signal_exposure(sl)
    \/ open_from_signal_max_open(sl)
    \/ open_from_signal_cooldown(sl)
    \/ open_from_signal_daily(sl)
    \/ open_from_signal_daily_insert(sl)
    \/ open_from_signal_finish(sl)

CloseStep(sl) ==
    \/ close_position_daily(sl)
    \/ close_position_daily_insert(sl)
    \/ close_position_finish(sl)

Step(sl) ==
    \/ claim_signals_commit(sl)
    \/ OpenStep(sl)
    \/ CloseStep(sl)

StoreStep(sl) ==
    open_from_signal_store(sl)

TestOrderStep(sl) ==
    \/ execution_test_order_enabled(sl)
    \/ execution_test_order_exposure(sl)
    \/ execution_test_order_consume(sl)
    \/ execution_test_order_execute(sl)
    \/ execution_test_order_store(sl)

PretradeStep(sl) ==
    \/ pretrade_check_exposure(sl)
    \/ pretrade_check_consume(sl)
    \/ pretrade_check_evaluate(sl)
    \/ pretrade_check_store(sl)

----------------------------------------------------------------------------
(* Spec: the position lifecycle of one trader whose requests interleave. *)

Trader == "u1"
TraderSymbol == <<"BTC", "USDT">>

Next ==
    \/ create_signal(Trader, TraderSymbol, Some(1000))
    \/ claim_signals_select(Trader, 10)
    \/ \E signal_id \in DOMAIN signals :
          open_from_signal_consume(Trader, signal_id, 1, None)
    \/ \E position_id \in DOMAIN positions :
          close_position_load(Trader, position_id, 1100, 0)
    \/ \E sl \in Slots : Step(sl)
    \/ Tick(20)

Spec == Init /\ [][Next]_vars

----------------------------------------------------------------------------
(* SpecSeq: requests served one after the other (a handler starts when none  *)
(* is in flight), with both users, idempotency keys, the kill-switch and     *)
(* deployments with exposure caps.                                           *)

\* The day so far, as earlier requests of the trader left it.  The audit rows of
\* those requests are left out: no handler reads the audit log.
DaySignal(status) ==
    [ user |-> Trader, symbol |-> TraderSymbol, entry_price |-> Some(1000), status |-> status ]

\* a claimed signal that waits for its position
Claimed == DaySignal("EXECUTING")

\* a day with more signals
With(day, more) == [day EXCEPT !.signals = @ \o more]

DayOpen(signal_id, opened_at) ==
    [ user |-> Trader, signal_id |-> signal_id, symbol |-> TraderSymbol, side |-> "LONG",
      qty |-> 1, entry_price |-> 1000, status |-> "OPEN", opened_at |-> opened_at,
      closed_at |-> None, realized_pnl |-> None, fees |-> None ]

DayClosed(signal_id, opened_at, closed_at, exit_price) ==
    [ user |-> Trader, signal_id |-> signal_id, symbol |-> TraderSymbol, side |-> "LONG",
      qty |-> 1, entry_price |-> 1000, status |-> "CLOSED", opened_at |-> opened_at,
      closed_at |-> Some(closed_at), realized_pnl |-> Some((exit_price - 1000) * 1 - 0),
      fees |-> Some(0) ]

DayRow(trades_today, realized_pnl_today) ==
    [ user_id |-> Trader, day |-> (StartNow - BogotaOffset) \div MinutesPerDay,
      trades_today |-> trades_today, realized_pnl_today |-> realized_pnl_today,
      daily_stop |-> profile_daily_stop(PROFILE_LOOSE),
      max_trades |-> profile_max_trades(PROFILE_LOOSE) ]

DayEmpty == [ signals |-> <<>>, positions |-> <<>>, daily |-> <<>> ]

\* two positions open, the later one opened last_opened_at
DayTwoOpen(last_opened_at) ==
    [ signals |-> << DaySignal("OPENED"), DaySignal("OPENED") >>,
      positions |-> << DayOpen(1, 200), DayOpen(2, last_opened_at) >>,
      daily |-> << DayRow(0, 0) >> ]

\* one position open, opened at opened_at
DayOneOpen(opened_at) ==
    [ signals |-> << DaySignal("OPENED") >>,
      positions |-> << DayOpen(1, opened_at) >>,
      daily |-> << DayRow(0, 0) >> ]

\* one trade closed with a loss of 2.0
DayOneLoss ==
    [ signals |-> << DaySignal("COMPLETED") >>,
      positions |-> << DayClosed(1, 200, 240, 980) >>,
      daily |-> << DayRow(1, -20) >> ]

\* four trades closed, the last two at last_exit_price
DayFourClosed(last_exit_price) ==
    [ signals |-> << DaySignal("COMPLETED"), DaySignal("COMPLETED"),
                    DaySignal("COMPLETED"), DaySignal("COMPLETED") >>,
      positions |-> << DayClosed(1, 60, 80, 1000), DayClosed(2, 100, 120, 1000),
                      DayClosed(3, 140, 180, last_exit_price),
                      DayClosed(4, 160, 200, last_exit_price) >>,
      daily |-> << DayRow(4, 2 * (last_exit_price - 1000)) >> ]

\* four trades closed, the last of them after one more position was opened
DayFourClosedOneOpen ==
    [ signals |-> << DaySignal("COMPLETED"), DaySignal("COMPLETED"), DaySignal("COMPLETED"),
                    DaySignal("COMPLETED"), DaySignal("OPENED") >>,
      positions |-> << DayClosed(1, 20, 40, 1000), DayClosed(2, 60, 80, 1000),
                      DayClosed(3, 100, 120, 1000), DayClosed(4, 140, 200, 1000),
                      DayOpen(5, 160) >>,
      daily |-> << DayRow(4, 0) >> ]

SeqStarts ==
    { [ day |-> With(DayEmpty, << DaySignal("CREATED"),
                                  [Claimed EXCEPT !.entry_price = None], Claimed >>),
        cfg |-> DefaultExposure ],
      [ day |-> With(DayTwoOpen(260), << Claimed >>), cfg |-> DefaultExposure ],
      [ day |-> With(DayOneLoss, << Claimed >>), cfg |-> DefaultExposure ],
      [ day |-> With(DayFourClosed(1100), << Claimed >>), cfg |-> DefaultExposure ],
      [ day |-> With(DayFourClosed(990), << Claimed >>), cfg |-> DefaultExposure ],
      [ day |-> With(DayFourClosedOneOpen, << Claimed >>), cfg |-> DefaultExposure ] }
    \cup { [ day |-> With(DayTwoOpen(240), << Claimed >>), cfg |-> c ] : c \in ExposureConfigs }

InitSeq ==
    /\ \E start \in SeqStarts :
          /\ signals = start.day.signals
          /\ positions = start.day.positions
          /\ daily = start.day.daily
          /\ cfg = start.cfg
    /\ idem = <<>>
    /\ audit = EmptyBag
    /\ trading = None
    /\ override = [u \in Users |-> None]
    /\ assignments = [k \in Users \X Exchanges |-> None]
    /\ secrets = {}
    /\ now = StartNow
    /\ req = [sl \in Slots |-> Idle]
    /\ resp = Response("none", "-", None, None, 0, None)
    /\ executed = EmptyBag
    /\ auth = NoSessions

\* the signals that wait, the newest signal that does not, and an id without a signal
OpenTargets ==
    LiveSignals \cup { Len(signals) + 1 }
    \cup { i \in DOMAIN signals \ LiveSignals : \A j \in DOMAIN signals \ LiveSignals : j <= i }

OpenKeys == { None, Some(<<"k1">>) }
PretradeKeys == { Some(<<"k1">>), Some(<<" ", "k1">>) }

\* requests of the trader, and of another user with the trader's ids
OpenRequests ==
    { [user |-> Trader, qty |-> qty, key |-> key] : qty \in QtySet, key \in OpenKeys }
    \cup { [user |-> "u2", qty |-> 1, key |-> None] }

CloseRequests == { [exit_price |-> 1100, fees |-> 0], [exit_price |-> 990, fees |-> 10] }

\* the positions there are, and an id without a position
CloseTargets == DOMAIN positions \cup { Len(positions) + 1 }

SeqIdle == InFlight = {} /\ BagCardinality(audit) < MaxSeqAudit

NextSeq ==
    \/ /\ SeqIdle
       /\ claim_signals_select(Trader, 10)
    \/ /\ SeqIdle
       /\ \E enabled \in BOOLEAN : update_admin_trading_control(enabled)
    \/ /\ SeqIdle
       /\ \E signal_id \in OpenTargets, r \in OpenRequests :
             open_from_signal_consume(r.user, signal_id, r.qty, r.key)
    \/ /\ SeqIdle
       /\ \E position_id \in CloseTargets, r \in CloseRequests :
             close_position_load(Trader, position_id, r.exit_price, r.fees)
    \/ /\ SeqIdle
       /\ \E position_id \in CloseTargets : close_position_load("u2", position_id, 1100, 0)
    \/ /\ SeqIdle
       /\ \E payload \in PretradePayloads, key \in PretradeKeys :
             pretrade_check_kill(Trader, "BINANCE", payload, key)
    \/ /\ InFlight = {}
       /\ Tick(30)
    \/ \E sl \in Slots : Step(sl)
    \/ \E sl \in Slots : StoreStep(sl)
    \/ \E sl \in Slots : PretradeStep(sl)

SpecSeq == InitSeq /\ [][NextSeq]_vars

----------------------------------------------------------------------------
(* SpecIdem: pretrade checks of one trader that interleave, with and without *)
(* an idempotency key, while the admin switches trading off and on.          *)

NextIdem ==
    \/ \E payload \in PretradePayloads, key \in KeySet :
          pretrade_check_kill(Trader, "BINANCE", payload, key)
    \/ \E enabled \in BOOLEAN : update_admin_trading_control(enabled)
    \/ \E sl \in Slots : PretradeStep(sl)

SpecIdem == Init /\ [][NextIdem]_vars

----------------------------------------------------------------------------
(* SpecOps: the gates in front of the operations.  The admin has stopped     *)
(* trading; requests are served one after the other: opens, test orders and  *)
(* exit checks of the trader, while the admin switches trading on and off    *)
(* and enables or disables the trader's exchange.                            *)

OpsStarts ==
    { [ day |-> With(DayEmpty, << DaySignal("CREATED"), Claimed >>), cfg |-> DefaultExposure ],
      [ day |-> With(DayOneOpen(260), << Claimed >>), cfg |-> DefaultExposure ],
      [ day |-> With(DayFourClosed(1100), << Claimed >>), cfg |-> DefaultExposure ],
      [ day |-> With(DayFourClosed(990), << Claimed >>), cfg |-> DefaultExposure ] }
    \cup { [ day |-> With(DayTwoOpen(240), << Claimed >>), cfg |-> c ] : c \in ExposureConfigs }
    \cup { [ day |-> With(DayOneOpen(200), << Claimed >>), cfg |-> c ] : c \in ExposureConfigs }

InitOps ==
    /\ \E start \in OpsStarts :
          /\ signals = start.day.signals
          /\ positions = start.day.positions
          /\ daily = start.day.daily
          /\ cfg = start.cfg
    /\ idem = <<>>
    /\ audit = EmptyBag
    /\ trading = Some(FALSE)
    /\ override = [u \in Users |-> None]
    /\ assignments = [k \in Users \X Exchanges |-> None]
    /\ secrets = { <<Trader, "BINANCE">> }
    /\ now = StartNow
    /\ req = [sl \in Slots |-> Idle]
    /\ resp = Response("none", "-", None, None, 0, None)
    /\ executed = EmptyBag
    /\ auth = NoSessions

OpsKeys == { None, Some(<<"k1">>) }

OpsIdle == InFlight = {} /\ BagCardinality(audit) < MaxOpsAudit

NextOps ==
    \/ /\ OpsIdle
       /\ \E enabled \in BOOLEAN : update_admin_trading_control(enabled)
    \/ /\ OpsIdle
       /\ \E enabled \in BOOLEAN : assign_strategy(Trader, "BINANCE", DEFAULT_STRATEGY, enabled)
    \/ /\ OpsIdle
       /\ \E signal_id \in OpenTargets, qty \in QtySet, key \in OpsKeys :
             open_from_signal_consume(Trader, signal_id, qty, key)
    \/ /\ OpsIdle
       /\ \E qty \in QtySet, key \in OpsKeys :
             execution_test_order_kill(Trader, "BINANCE", TestOrderPayload(qty), key)
    \/ /\ OpsIdle
       /\ \E key \in OpsKeys : pretrade_check_kill(Trader, "BINANCE", PretradePayload(1), key)
    \/ /\ OpsIdle
       /\ exit_check_enabled(Trader, "BINANCE", ExitPayload(1000, 480))
    \/ \E sl \in Slots : OpenStep(sl)
    \/ \E sl \in Slots : StoreStep(sl)
    \/ \E sl \in Slots : TestOrderStep(sl)
    \/ \E sl \in Slots : PretradeStep(sl)
    \/ \E sl \in Slots : exit_check_evaluate(sl)

SpecOps == InitOps /\ [][NextOps]_vars

----------------------------------------------------------------------------
(* SpecProfile: the daily row under profile changes.  Requests are served    *)
(* one after the other: the admin sets or clears the trader's profile        *)
(* override, the trader opens, closes and reads risk/today, the day turns.   *)

ProfileStarts ==
    { With(DayEmpty, << Claimed >>), With(DayOneOpen(200), << Claimed >>),
      With(DayOneLoss, << Claimed >>) }

InitProfile ==
    /\ \E day \in ProfileStarts :
          /\ signals = day.signals
          /\ positions = day.positions
          /\ daily = day.daily
    /\ cfg = DefaultExposure
    /\ idem = <<>>
    /\ audit = EmptyBag
    /\ trading = None
    /\ override = [u \in Users |-> None]
    /\ assignments = [k \in Users \X Exchanges |-> None]
    /\ secrets = {}
    /\ now = StartNow
    /\ req = [sl \in Slots |-> Idle]
    /\ resp = Response("none", "-", None, None, 0, None)
    /\ executed = EmptyBag
    /\ auth = NoSessions

ProfileNames == list_profile_names \cup { "", "unknown" }

ProfileIdle == InFlight = {} /\ BagCardinality(audit) < MaxProfileAudit

NextProfile ==
    \/ /\ ProfileIdle
       /\ \E profile_name \in ProfileNames : set_user_risk_profile(Trader, profile_name)
    \/ /\ ProfileIdle
       /\ get_today_risk(Trader)
    \/ /\ ProfileIdle
       /\ \E signal_id \in LiveSignals : open_from_signal_consume(Trader, signal_id, 1, None)
    \/ /\ ProfileIdle
       /\ \E position_id \in DOMAIN positions, r \in CloseRequests :
             close_position_load(Trader, position_id, r.exit_price, r.fees)
    \/ /\ InFlight = {}
       /\ Tick(30)
    \/ \E sl \in Slots : OpenStep(sl)
    \/ \E sl \in Slots : CloseStep(sl)

SpecProfile == InitProfile /\ [][NextProfile]_vars

----------------------------------------------------------------------------
(* SpecClose: the trader holds two open positions and closes them, at a gain *)
(* or at a loss; the close requests interleave.  Today's row exists, so no   *)
(* close has to insert it.                                                   *)

InitClose ==
    /\ signals = DayTwoOpen(240).signals
    /\ positions = DayTwoOpen(240).positions
    /\ daily = DayTwoOpen(240).daily
    /\ cfg = DefaultExposure
    /\ idem = <<>>
    /\ audit = EmptyBag
    /\ trading = None
    /\ override = [u \in Users |-> None]
    /\ assignments = [k \in Users \X Exchanges |-> None]
    /\ secrets = {}
    /\ now = StartNow
    /\ req = [sl \in Slots |-> Idle]
    /\ resp = Response("none", "-", None, None, 0, None)
    /\ executed = EmptyBag
    /\ auth = NoSessions

ClosePrices == { 990, 1100 }
CloseFees == { 0, 10 }

NextClose ==
    \/ \E position_id \in DOMAIN positions, exit_price \in ClosePrices, fees \in CloseFees :
          close_position_load(Trader, position_id, exit_price, fees)
    \/ \E sl \in Slots : close_position_daily(sl)
    \/ \E sl \in Slots : close_position_finish(sl)

SpecClose == InitClose /\ [][NextClose]_vars

----------------------------------------------------------------------------
(* The pre-trade evaluation over its inputs: the trader's day so far, the   *)
(* strategy assigned, the credentials stored, and payloads around every     *)
(* threshold of _build_strategy_checks.                                     *)

MaxPretradeAudit == 1

StrategyIds == { "SWING_V1", "INTRADAY_V1" }

\* the assignment rows of the trader: none, or one per exchange
PretradeAssignments ==
    { None } \cup { Some([strategy_id |-> s, enabled |-> e]) :
                      s \in StrategyIds, e \in BOOLEAN }

PretradeDays ==
    { DayEmpty, DayTwoOpen(240), DayOneOpen(260), DayFourClosed(990), DayFourClosed(1100) }

PretradeSecrets == { {}, { <<Trader, "BINANCE">>, <<Trader, "IBKR">> } }

InitPretrade ==
    /\ \E day \in PretradeDays :
          /\ signals = day.signals
          /\ positions = day.positions
          /\ daily = day.daily
    /\ \E row \in PretradeAssignments :
          assignments = [k \in Users \X Exchanges |-> IF k[1] = Trader THEN row ELSE None]
    /\ secrets \in PretradeSecrets
    /\ cfg = DefaultExposure
    /\ idem = <<>>
    /\ audit = EmptyBag
    /\ trading = Some(TRUE)
    /\ override = [u \in Users |-> None]
    /\ now = StartNow
    /\ req = [sl \in Slots |-> Idle]
    /\ resp = Response("none", "-", None, None, 0, None)
    /\ executed = EmptyBag
    /\ auth = NoSessions

\* reward/risk around 1.3 and 1.5
RrEstimates == { 12, 13, 14, 15 }

\* the timeframes any strategy allows, and one that only IBKR swing allows
TrendTfs == { "4H", "1H", "1D" }
SignalTfs == { "1H", "15M", "30M" }
TimingTfs == { "15M", "5M" }

\* volume around 50M and 80M, spread around 8 and 10, slippage around 12 and 15
Volumes == { 49, 50, 79, 80 }
Spreads == { 8, 9, 10, 11 }
Slippages == { 12, 13, 15, 16 }

PretradeInputs ==
    { [PretradePayload(1) EXCEPT !.rr_estimate = rr] : rr \in RrEstimates }
    \cup { [PretradePayload(1) EXCEPT !.trend_tf = t, !.signal_tf = s, !.timing_tf = m] :
             t \in TrendTfs, s \in SignalTfs, m \in TimingTfs }
    \cup { [PretradePayload(1) EXCEPT !.volume_24h_usdt = v] : v \in Volumes }
    \cup { [PretradePayload(1) EXCEPT !.spread_bps = s] : s \in Spreads }
    \cup { [PretradePayload(1) EXCEPT !.slippage_bps = s] : s \in Slippages }
    \cup { [PretradePayload(1) EXCEPT !.in_rth = r, !.macro_event_block = m,
                                      !.earnings_within_24h = e] :
             r \in BOOLEAN, m \in BOOLEAN, e \in BOOLEAN }

\* bodies as clients spell them: lower case, padded, a timeframe no strategy
\* knows, a side that is none
PretradeBodies ==
    { [PretradePayload(1) EXCEPT !.trend_tf = t] : t \in { "4h", "2H" } }
    \cup { [PretradePayload(1) EXCEPT !.signal_tf = t] : t \in { " 1h ", "2H" } }
    \cup { [PretradePayload(1) EXCEPT !.timing_tf = "2H"] }
    \cup { [PretradePayload(1) EXCEPT !.side = s] : s \in { "sell", " buy", "HOLD" } }

PretradeIdle == InFlight = {} /\ BagCardinality(audit) < MaxPretradeAudit

NextPretrade ==
    \/ /\ PretradeIdle
       /\ \E exchange \in Exchanges, payload \in PretradeInputs, key \in OpsKeys :
             pretrade_check_kill(Trader, exchange, payload, key)
    \/ /\ PretradeIdle
       /\ \E exchange \in Exchanges, body \in PretradeBodies, key \in OpsKeys :
             pretrade_check_request(Trader, exchange, body, key)
    \/ \E sl \in Slots : PretradeStep(sl)

SpecPretrade == InitPretrade /\ [][NextPretrade]_vars

----------------------------------------------------------------------------
(* The exit evaluation over its inputs: the strategy assigned and payloads   *)
(* around the stop, the target and the two hold limits.                      *)

MaxExitAudit == 1

InitExit ==
    /\ signals = DayEmpty.signals
    /\ positions = DayEmpty.positions
    /\ daily = DayEmpty.daily
    /\ \E row \in PretradeAssignments :
          assignments = [k \in Users \X Exchanges |-> IF k[1] = Trader THEN row ELSE None]
    /\ secrets = {}
    /\ cfg = DefaultExposure
    /\ idem = <<>>
    /\ audit = EmptyBag
    /\ trading = Some(TRUE)
    /\ override = [u \in Users |-> None]
    /\ now = StartNow
    /\ req = [sl \in Slots |-> Idle]
    /\ resp = Response("none", "-", None, None, 0, None)
    /\ executed = EmptyBag
    /\ auth = NoSessions

Sides == { "BUY", "SELL" }

\* prices around the stop of 95.0 and the target of 110.0
ExitPrices == { 940, 950, 1000, 1100, 1110 }

\* minutes around the hold limits of 240 and 480
OpenedMinutes == { 239, 240, 241, 479, 480, 481 }

ExitInputs ==
    { [ExitPayload(price, minutes) EXCEPT !.side = side, !.trend_break = t,
                                          !.signal_reverse = s, !.macro_event_block = m,
                                          !.earnings_within_24h = e] :
        price \in ExitPrices, minutes \in OpenedMinutes, side \in Sides,
        t \in BOOLEAN, s \in BOOLEAN, m \in BOOLEAN, e \in BOOLEAN }

ExitIdle == InFlight = {} /\ BagCardinality(audit) < MaxExitAudit

NextExit ==
    \/ /\ ExitIdle
       /\ \E exchange \in Exchanges, payload \in ExitInputs :
             exit_check_enabled(Trader, exchange, payload)
    \/ \E sl \in Slots : exit_check_evaluate(sl)

SpecExit == InitExit /\ [][NextExit]_vars

----------------------------------------------------------------------------
(* Sessions: /auth/login, /auth/refresh, /auth/logout, /auth/revoke-all and *)
(* get_current_user.  The clock auth.clock counts half seconds: a token's   *)
(* iat and exp are whole seconds, the marker of revoke-all keeps the        *)
(* fraction.  Every user exists, is not disabled, has no 2FA, and password  *)
(* expiry is not enforced.                                                  *)

MaxClock == 4

\* a JWT: its claims and whether its signature verifies
Token(u, typ, jti, iat, exp) ==
    [ sub |-> Email(u), uid |-> u, typ |-> typ, jti |-> jti, iat |-> iat, exp |-> exp,
      signed |-> TRUE ]

\* the tokens clients hold: two sessions of the trader, issued in the seconds 0
\* and 1, one of the other user, an expired token and one signed with another key
AuthTokens ==
    { Token(Trader, "access", "a1", 0, 3600), Token(Trader, "refresh", "r1", 0, 3600),
      Token(Trader, "access", "a2", 1, 3600), Token(Trader, "refresh", "r2", 1, 3600),
      Token("u2", "access", "a3", 0, 3600), Token("u2", "refresh", "r3", 0, 3600),
      Token(Trader, "access", "a0", 0, 1),
      [Token(Trader, "access", "a9", 1, 3600) EXCEPT !.signed = FALSE] }

\* jwt.decode: the claims, or nothing for a bad signature or an expired token
decode_token(token) ==
    IF token.signed /\ auth.clock \div 2 <= token.exp THEN Some(token) ELSE None

UserByEmail(email) == CHOOSE u \in Users : Email(u) = email

\* get_current_user: the status (200, else the error) and the user
get_current_user(token) ==
    LET payload == decode_token(token)
        user == UserByEmail(Get(payload).sub)
        session_revoke == auth.session_revocation[user]
    IN  IF payload = None THEN [status |-> 401, detail |-> "Invalid authentication credentials"]
        ELSE IF Get(payload).typ # "access"
        THEN [status |-> 401, detail |-> "Invalid token type"]
        ELSE IF Get(payload).jti \in auth.revoked_token
        THEN [status |-> 401, detail |-> "Token revoked"]
        ELSE IF IsSome(session_revoke) /\ 2 * Get(payload).iat <= Get(session_revoke)
        THEN [status |-> 401, detail |-> "Session revoked"]
        ELSE [status |-> 200, user |-> user]

\* the checks of refresh_tokens before it rotates (lines 225-283)
refresh_checks(token) ==
    LET payload == decode_token(token)
        user == UserByEmail(Get(payload).sub)
        session_revoke == auth.session_revocation[user]
    IN  IF payload = None THEN [status |-> 401, detail |-> "Invalid refresh token"]
        ELSE IF Get(payload).typ # "refresh"
        THEN [status |-> 401, detail |-> "Invalid token type"]
        ELSE IF Get(payload).jti \in auth.revoked_token
        THEN [status |-> 401, detail |-> "Refresh token revoked"]
        ELSE IF IsSome(session_revoke) /\ Get(payload).iat <= Get(session_revoke) \div 2
        THEN [status |-> 401, detail |-> "Session revoked"]
        ELSE [status |-> 200, user |-> user]

\* _revoke_token_payload: the table with the token's jti
_revoke_token_payload(revoked_token, payload) == revoked_token \cup { payload.jti }

\* _issued_at_after_revocation: the second of the clock, or the second after
\* the user's marker if that is later
_issued_at_after_revocation(u) ==
    LET now_ts == auth.clock \div 2
        revoke_row == auth.session_revocation[u]
    IN  IF revoke_row = None THEN now_ts
        ELSE IF now_ts >= Get(revoke_row) \div 2 + 1 THEN now_ts
        ELSE Get(revoke_row) \div 2 + 1

\* the parameters create_access_token and create_refresh_token declare
create_token_params == { "data", "expires_delta" }

\* the keywords login and refresh_tokens pass to them
create_token_keywords == { "data", "expires_delta", "issued_at" }

\* a call with a keyword the function does not declare raises TypeError
CallRaises(params, keywords) == ~(keywords \subseteq params)

\* POST /auth/login: the password, then the token pair.  The call of
\* create_access_token raises before anything is written; the audit event and
\* the commit after it are not reached.
login(u, password_ok) ==
    /\ CanStart
    /\ resp' = IF ~password_ok
               THEN Response("login", u, None, [password_ok |-> password_ok], 401,
                             "Incorrect email or password")
               ELSE IF CallRaises(create_token_params, create_token_keywords)
               THEN Response("login", u, None, [password_ok |-> password_ok], 500,
                             "TypeError")
               ELSE Response("login", u, None, [password_ok |-> password_ok], 200,
                             [ access_token |-> Token(u, "access", "new", _issued_at_after_revocation(u), 3600),
                               refresh_token |-> Token(u, "refresh", "new", _issued_at_after_revocation(u), 3600) ])
    /\ UNCHANGED <<signals, positions, daily, idem, audit, conf, now, req, executed>>

\* POST /auth/refresh: the checks, the revocation of the token presented (added
\* to the session), then the new pair.  The call of create_access_token raises,
\* the session is closed without commit and the revocation is lost.
refresh_tokens(token) ==
    /\ CanStart
    /\ LET checked == refresh_checks(token) IN
       resp' = IF checked.status # 200
               THEN Response("refresh", "-", None, [refresh_token |-> token],
                             checked.status, checked.detail)
               ELSE IF CallRaises(create_token_params, create_token_keywords)
               THEN Response("refresh", checked.user, None, [refresh_token |-> token], 500,
                             "TypeError")
               ELSE Response("refresh", checked.user, None, [refresh_token |-> token], 200,
                             [ access_token |->
                                   Token(checked.user, "access", "new",
                                         _issued_at_after_revocation(checked.user), 3600),
                               refresh_token |->
                                   Token(checked.user, "refresh", "new",
                                         _issued_at_after_revocation(checked.user), 3600) ])
    /\ UNCHANGED <<signals, positions, daily, idem, audit, conf, now, req, executed>>

\* POST /auth/logout: the access token and, if it is the caller's, the refresh
\* token are revoked; audit; commit.
logout(token, refresh_token) ==
    /\ CanStart
    /\ LET checked == get_current_user(token)
           a == [token |-> token, refresh_token |-> refresh_token]
           own == /\ IsSome(refresh_token)
                  /\ IsSome(decode_token(Get(refresh_token)))
                  /\ Get(refresh_token).sub = Email(checked.user)
           first == _revoke_token_payload(auth.revoked_token, token)
       IN  IF checked.status # 200
           THEN /\ resp' = Response("logout", "-", None, a, checked.status, checked.detail)
                /\ UNCHANGED <<auth, audit>>
           ELSE /\ auth' = [auth EXCEPT !.revoked_token =
                               IF own THEN _revoke_token_payload(first, Get(refresh_token))
                               ELSE first]
                /\ audit' = log_audit_event("auth.logout.success", checked.user,
                                            Some(checked.user), None)
                /\ resp' = Response("logout", checked.user, None, a, 200, "Session revoked")
    /\ UNCHANGED <<signals, positions, daily, idem, trading, override, assignments, secrets,
                   cfg, now, req, executed>>

\* POST /auth/revoke-all: the access token is revoked and the user's marker is
\* set to now; audit; commit.
revoke_all_sessions(token) ==
    /\ CanStart
    /\ LET checked == get_current_user(token)
           a == [token |-> token]
       IN  IF checked.status # 200
           THEN /\ resp' = Response("revoke_all", "-", None, a, checked.status, checked.detail)
                /\ UNCHANGED <<auth, audit>>
           ELSE /\ auth' = [auth EXCEPT
                               !.revoked_token = _revoke_token_payload(@, token),
                               !.session_revocation[checked.user] = Some(auth.clock)]
                /\ audit' = log_audit_event("auth.revoke_all.requested", checked.user,
                                            Some(checked.user), None)
                /\ resp' = Response("revoke_all", checked.user, None, a, 200,
                                    "All previous sessions revoked")
    /\ UNCHANGED <<signals, positions, daily, idem, trading, override, assignments, secrets,
                   cfg, now, req, executed>>

\* GET /users/me: any request behind get_current_user
users_me(token) ==
    /\ CanStart
    /\ LET checked == get_current_user(token) IN
       resp' = IF checked.status # 200
               THEN Response("me", "-", None, [token |-> token], checked.status, checked.detail)
               ELSE Response("me", checked.user, None, [token |-> token], 200,
                             [id |-> checked.user, email |-> Email(checked.user)])
    /\ UNCHANGED <<signals, positions, daily, idem, audit, conf, now, req, executed>>

\* half a second passes
auth_tick ==
    /\ auth.clock < MaxClock
    /\ auth' = [auth EXCEPT !.clock = @ + 1]
    /\ UNCHANGED <<signals, positions, daily, idem, audit, trading, override, assignments,
                   secrets, cfg, now, req, resp, executed>>

NextAuth ==
    \/ \E u \in Users, password_ok \in BOOLEAN : login(u, password_ok)
    \/ \E token \in AuthTokens : refresh_tokens(token)
    \/ \E token \in AuthTokens, refresh_token \in { None } \cup { Some(t) : t \in AuthTokens } :
          logout(token, refresh_token)
    \/ \E token \in AuthTokens : revoke_all_sessions(token)
    \/ \E token \in AuthTokens : users_me(token)
    \/ auth_tick

SpecAuth == Init /\ [][NextAuth]_vars

----------------------------------------------------------------------------
(* SpecGate: the risk gates of the open and the risk checks of the pretrade  *)
(* check on the same rows and clock.  The trader asks for a pretrade check   *)
(* and for an open, one request after the other; the clock stands still.     *)

MaxGateAudit == 2

\* one trade closed at exit_price
DayOneTrade(exit_price) ==
    [ signals |-> << DaySignal("COMPLETED") >>,
      positions |-> << DayClosed(1, 200, 240, exit_price) >>,
      daily |-> << DayRow(1, exit_price - 1000) >> ]

\* three trades closed, the last one at closed_at
DayThreeClosed(closed_at) ==
    [ signals |-> << DaySignal("COMPLETED"), DaySignal("COMPLETED"), DaySignal("COMPLETED") >>,
      positions |-> << DayClosed(1, 60, 80, 1000), DayClosed(2, 100, 120, 1000),
                      DayClosed(3, 140, closed_at, 1000) >>,
      daily |-> << DayRow(3, 0) >> ]

\* days on both sides of every threshold of the two profiles
GateStarts ==
    { With(day, << Claimed >>) :
        day \in { DayEmpty, DayOneOpen(200), DayOneOpen(239), DayOneOpen(240), DayOneOpen(241),
                  DayOneOpen(249), DayOneOpen(250), DayOneOpen(251), DayTwoOpen(200),
                  DayOneTrade(979), DayOneTrade(980), DayOneTrade(981), DayOneTrade(984),
                  DayOneTrade(985), DayOneTrade(986), DayThreeClosed(200),
                  DayFourClosed(1000), DayFourClosedOneOpen } }

InitGate ==
    /\ \E day \in GateStarts :
          /\ signals = day.signals
          /\ positions = day.positions
          /\ daily = day.daily
    /\ \E name \in { None, Some(PROFILE_MODEL2.profile_name) } :
          override = [u \in Users |-> IF u = Trader THEN name ELSE None]
    /\ cfg = DefaultExposure
    /\ idem = <<>>
    /\ audit = EmptyBag
    /\ trading = None
    /\ assignments = [k \in Users \X Exchanges |-> None]
    /\ secrets = {}
    /\ now = StartNow
    /\ req = [sl \in Slots |-> Idle]
    /\ resp = Response("none", "-", None, None, 0, None)
    /\ executed = EmptyBag
    /\ auth = NoSessions

GateIdle == InFlight = {} /\ BagCardinality(audit) < MaxGateAudit

NextGate ==
    \/ /\ GateIdle
       /\ \E key \in OpsKeys : pretrade_check_kill(Trader, "BINANCE", PretradePayload(1), key)
    \/ /\ GateIdle
       /\ \E signal_id \in OpenTargets : open_from_signal_consume(Trader, signal_id, 1, None)
    \/ \E sl \in Slots : OpenStep(sl)
    \/ \E sl \in Slots : PretradeStep(sl)

SpecGate == InitGate /\ [][NextGate]_vars

----------------------------------------------------------------------------
(* SpecCloseGates: closes while the gates of the open are shut.  The trader  *)
(* holds positions on a day on which the kill-switch is on or off, Binance   *)
(* is disabled for the trader or not, an exposure cap is reached or not, and *)
(* the daily stop, the trade limit, the limit of open positions or the       *)
(* cooldown would block an open.  Requests are served one after the other.   *)

MaxCloseGatesAudit == 2

\* one trade closed at the daily stop, one position open
DayStoppedOneOpen ==
    [ signals |-> << DaySignal("COMPLETED"), DaySignal("OPENED") >>,
      positions |-> << DayClosed(1, 200, 240, 980), DayOpen(2, 250) >>,
      daily |-> << DayRow(1, -20) >> ]

\* one position open since the day before, no row for the day yet
DayNoRowOneOpen ==
    [ signals |-> << DaySignal("OPENED") >>,
      positions |-> << DayOpen(1, 200) >>,
      daily |-> <<>> ]

CloseGatesStarts ==
    { With(day, << Claimed >>) :
        day \in { DayTwoOpen(260), DayFourClosedOneOpen, DayStoppedOneOpen, DayNoRowOneOpen } }

InitCloseGates ==
    /\ \E day \in CloseGatesStarts :
          /\ signals = day.signals
          /\ positions = day.positions
          /\ daily = day.daily
    /\ cfg \in ExposureConfigs
    /\ trading \in { None, Some(FALSE) }
    /\ \E row \in { None, Some([strategy_id |-> DEFAULT_STRATEGY, enabled |-> FALSE]) } :
          assignments = [k \in Users \X Exchanges |->
                            IF k = <<Trader, "BINANCE">> THEN row ELSE None]
    /\ idem = <<>>
    /\ audit = EmptyBag
    /\ override = [u \in Users |-> None]
    /\ secrets = {}
    /\ now = StartNow
    /\ req = [sl \in Slots |-> Idle]
    /\ resp = Response("none", "-", None, None, 0, None)
    /\ executed = EmptyBag
    /\ auth = NoSessions

CloseGatesIdle == InFlight = {} /\ BagCardinality(audit) < MaxCloseGatesAudit

NextCloseGates ==
    \/ /\ CloseGatesIdle
       /\ \E signal_id \in OpenTargets : open_from_signal_consume(Trader, signal_id, 1, None)
    \/ /\ CloseGatesIdle
       /\ \E position_id \in CloseTargets, r \in CloseRequests :
             close_position_load(Trader, position_id, r.exit_price, r.fees)
    \/ /\ CloseGatesIdle
       /\ \E position_id \in CloseTargets : close_position_load("u2", position_id, 1100, 0)
    \/ \E sl \in Slots : OpenStep(sl)
    \/ \E sl \in Slots : CloseStep(sl)

SpecCloseGates == InitCloseGates /\ [][NextCloseGates]_vars






----------------------------------------------------------------------------
(* What the audit log and the tables record, for the properties below. *)

Events(action, u) == { e \in DOMAIN audit : e.action = action /\ e.user_id = u }

RECURSIVE CountEvents(_)
CountEvents(E) ==
    IF E = {} THEN 0
    ELSE LET e == CHOOSE x \in E : TRUE IN audit[e] + CountEvents(E \ {e})

\* The sum of the realized PnLs the position.close events carry.
RECURSIVE ClosedPnl(_)
ClosedPnl(E) ==
    IF E = {} THEN 0
    ELSE LET e == CHOOSE x \in E : TRUE
         IN  audit[e] * Get(e.details).realized_pnl + ClosedPnl(E \ {e})

TradesRecorded(u) ==
    SumSeq([i \in DOMAIN daily |-> IF daily[i].user_id = u THEN daily[i].trades_today ELSE 0])

PnlRecorded(u) ==
    SumSeq([i \in DOMAIN daily |->
                IF daily[i].user_id = u THEN daily[i].realized_pnl_today ELSE 0])

PositionsOfSignal(sid) == { i \in DOMAIN positions : positions[i].signal_id = sid }

SignalRank(status) ==
    CASE status = "CREATED" -> 1
      [] status = "EXECUTING" -> 2
      [] status = "OPENED" -> 3
      [] status = "COMPLETED" -> 4

----------------------------------------------------------------------------
(* Properties. *)

\* C1: in every reachable state no user has more OPEN positions than
\* max_open_positions of the user's resolved profile, also when open requests
\* of the user interleave.
C1_OpenWithinLimit ==
    \A u \in Users :
        Cardinality(OpenPositions(u)) <= resolve_risk_profile(u).max_open_positions

\* C2: the day's row counts every successful close: trades_today has grown by
\* the number of successful closes of the user and realized_pnl_today by the
\* sum of their realized PnLs, whatever the interleaving.
C2_NoLostUpdate ==
    \A u \in Users :
        /\ TradesRecorded(u) = CountEvents(Events("position.close", u))
        /\ PnlRecorded(u) = ClosedPnl(Events("position.close", u))

\* C3: there is at most one DailyRiskState row per (user_id, day), also when
\* two requests both found no row and both try to create it.
C3_UniqueDailyRow ==
    \A i, j \in DOMAIN daily :
        (daily[i].user_id = daily[j].user_id /\ daily[i].day = daily[j].day) => i = j

\* C3 witness: a request that found no row is about to insert it while the row
\* of that user and day has meanwhile been committed by another request.
C3_Witness ==
    \E sl \in Slots :
        /\ req[sl].kind \in {"open", "close"}
        /\ req[sl].pc = "dr_insert"
        /\ uq_user_day(req[sl].user, req[sl].l.today)

\* C4: for each position at most one close_position call succeeds (one
\* position.close event per position), also when two closes of it interleave.
C4_ClosedOnce ==
    \A pid \in DOMAIN positions :
        CountEvents({ e \in DOMAIN audit :
                        e.action = "position.close" /\ e.entity_id = Some(pid) }) <= 1

\* C5: at most one Position is ever created from a given Signal, also when two
\* open requests for the signal interleave.
C5_OnePositionPerSignal ==
    \A sid \in DOMAIN signals : Cardinality(PositionsOfSignal(sid)) <= 1

\* C6: a signal's status only moves forward along CREATED -> EXECUTING ->
\* OPENED -> COMPLETED, one state at a time: no step moves it backwards or
\* skips a state.
C6_SignalForward ==
    [][\A i \in DOMAIN signals :
          \/ signals'[i].status = signals[i].status
          \/ SignalRank(signals'[i].status) = SignalRank(signals[i].status) + 1]_vars

----------------------------------------------------------------------------
(* Requests with an idempotency key, read off the response that answers them. *)

RespEndpoint(r) ==
    IF r.kind = "open" THEN OpenEndpoint
    ELSE IF r.kind = "test_order" THEN TestOrderEndpoint(r.a.exchange)
    ELSE PretradeEndpoint(r.a.exchange)

RespPayload(r) == IF r.kind = "open" THEN r.a ELSE r.a.payload

\* The records stored for the user, the endpoint and the key of the request.
StoredRows(r) ==
    IF EffectiveKey(r.key) = None THEN {}
    ELSE IdemRows(r.user, RespEndpoint(r), _sha256(Get(EffectiveKey(r.key))))

StoredSame(r) ==
    \E i \in StoredRows(r) :
        idem[i].request_hash = _sha256(_canonical_payload(RespPayload(r)))

StoredOther(r) ==
    \E i \in StoredRows(r) :
        idem[i].request_hash # _sha256(_canonical_payload(RespPayload(r)))

StoredResponse(r) == json_loads(idem[CHOOSE i \in StoredRows(r) : TRUE].response_json)

\* A request to an endpoint that takes a key is answered in this step.
Answered == resp' # resp /\ resp'.kind \in {"open", "pretrade"}

\* The audit rows this step adds.
NewEvents == audit' (-) audit

GateActions == { "execution.blocked.kill_switch", "execution.blocked.exposure.symbol_qty",
                 "execution.blocked.exposure.exchange_notional" }

\* The request is a pretrade check that the kill-switch or an exposure cap stops.
GateBlocks(r) ==
    /\ r.kind = "pretrade"
    /\ \/ ~get_trading_enabled
       \/ assert_exposure_limits(r.user, r.a.exchange, r.a.payload.symbol,
                                 r.a.payload.qty, 0) # "ok"

\* The step answers 409 with the risk block of a gate: its audit row and nothing else.
GateBlocked ==
    /\ resp'.status = 409
    /\ resp'.body \in GateActions
    /\ BagCardinality(NewEvents) = 1
    /\ \A e \in BagToSet(NewEvents) : e.action = resp'.body
    /\ UNCHANGED <<signals, positions, daily, idem, executed>>

\* C7: a request whose key and payload are stored is answered with the stored
\* response, unchanged, and nothing is executed again: no table changes and no
\* audit row is written.
C7_Replay ==
    [][ (Answered /\ StoredSame(resp')) =>
            /\ resp'.cached
            /\ resp'.status = 200
            /\ resp'.body = StoredResponse(resp')
            /\ UNCHANGED <<signals, positions, daily, idem, audit, executed>> ]_vars

\* C7, amended: as C7 for every request that reaches the replay check: every
\* open_from_signal request, and a pretrade check when trading is enabled and
\* no exposure cap stops it.  A pretrade check that a gate stops is answered with
\* the gate's 409 and audit row; it still changes no table and evaluates nothing.
C7_ReplayWhenReached ==
    [][ (Answered /\ StoredSame(resp')) =>
            IF GateBlocks(resp')
            THEN GateBlocked
            ELSE /\ resp'.cached
                 /\ resp'.status = 200
                 /\ resp'.body = StoredResponse(resp')
                 /\ UNCHANGED <<signals, positions, daily, idem, audit, executed>> ]_vars

\* C7 witness: an open request is answered from the stored record of its key,
\* and the position of the first request is the only one of the signal.
C7_Witness ==
    /\ resp.kind = "open"
    /\ resp.cached
    /\ Cardinality(PositionsOfSignal(resp.a.signal_id)) = 1
    /\ executed # EmptyBag

\* C8: a request whose key is stored with another payload is rejected with 409
\* 'different payload'; the operation does not run and the stored record and
\* the tables stay as they are.
C8_Conflict ==
    [][ (Answered /\ StoredOther(resp')) =>
            /\ resp'.status = 409
            /\ resp'.body = "Idempotency key already used with different payload"
            /\ UNCHANGED <<signals, positions, daily, idem, executed>> ]_vars

\* C8, amended: as C8 for every request that reaches the replay check (every
\* open_from_signal request; a pretrade check when trading is enabled and no
\* exposure cap stops it), and then no audit row is written either.  A pretrade
\* check that a gate stops is rejected with the gate's 409 and audit row; the
\* stored record and the tables stay as they are in that case too.
C8_ConflictWhenReached ==
    [][ (Answered /\ StoredOther(resp')) =>
            IF GateBlocks(resp')
            THEN GateBlocked
            ELSE /\ resp'.status = 409
                 /\ resp'.body = "Idempotency key already used with different payload"
                 /\ ~resp'.cached
                 /\ UNCHANGED <<signals, positions, daily, idem, audit, executed>> ]_vars

\* C8 witness: a pretrade check was rejected as a reuse of a key with another
\* payload, and the record of the key is in the table.
C8_Witness ==
    /\ resp.kind = "pretrade"
    /\ resp.status = 409
    /\ resp.body = "Idempotency key already used with different payload"
    /\ StoredOther(resp)

\* C9: the operation of a key is executed at most once, also when the first
\* request and its retry run at the same time.
C9_AppliedOnce ==
    \A k \in BagToSet(executed) : CopiesIn(k, executed) <= 1

----------------------------------------------------------------------------
(* The order of the preconditions of open_from_signal, as the contract lists *)
(* them: what a request must get in the state it is served in.               *)

Outcome(status, action) == [status |-> status, action |-> action, replay |-> FALSE]

PnlToday(u) ==
    SumSeq([i \in DOMAIN daily |->
        IF daily[i].user_id = u /\ daily[i].day = today_colombia
        THEN daily[i].realized_pnl_today ELSE 0])

TradesToday(u) ==
    SumSeq([i \in DOMAIN daily |->
        IF daily[i].user_id = u /\ daily[i].day = today_colombia
        THEN daily[i].trades_today ELSE 0])

CooldownRuns(u, profile) ==
    \E i \in DOMAIN positions :
        /\ positions[i].user = u
        /\ now - LastActivity(positions[i]) < profile.cooldown_between_trades_minutes

FirstFailing(r) ==
    LET u == r.user
        sid == r.a.signal_id
        profile == resolve_risk_profile(u)
    IN  IF StoredSame(r) THEN [status |-> 200, action |-> None, replay |-> TRUE]
        ELSE IF StoredOther(r) THEN Outcome(409, None)
        ELSE IF sid \notin DOMAIN signals THEN Outcome(404, None)
        ELSE IF signals[sid].user # u THEN Outcome(403, None)
        ELSE IF signals[sid].status # "EXECUTING" THEN Outcome(409, None)
        ELSE IF signals[sid].entry_price = None THEN Outcome(400, None)
        ELSE IF ~get_trading_enabled THEN Outcome(409, Some("execution.blocked.kill_switch"))
        ELSE IF /\ cfg.MAX_OPEN_QTY_PER_SYMBOL > 0
                /\ OpenQtySymbol(u, signals[sid].symbol) + r.a.qty > cfg.MAX_OPEN_QTY_PER_SYMBOL
        THEN Outcome(409, Some("execution.blocked.exposure.symbol_qty"))
        ELSE IF /\ cfg.MAX_OPEN_NOTIONAL_PER_EXCHANGE > 0
                /\ OpenNotionalExchange(u, infer_exchange_from_symbol(signals[sid].symbol))
                     + r.a.qty * Get(signals[sid].entry_price)
                   > cfg.MAX_OPEN_NOTIONAL_PER_EXCHANGE
        THEN Outcome(409, Some("execution.blocked.exposure.exchange_notional"))
        ELSE IF Cardinality(OpenPositions(u)) >= profile.max_open_positions
        THEN Outcome(409, Some("position.open.blocked.max_open_positions"))
        ELSE IF CooldownRuns(u, profile)
        THEN Outcome(409, Some("position.open.blocked.cooldown"))
        ELSE IF PnlToday(u) <= -Abs(profile.max_daily_loss_pct)
        THEN Outcome(409, Some("position.open.blocked.daily_stop"))
        ELSE IF TradesToday(u) >= profile.max_trades_per_day
        THEN Outcome(409, Some("position.open.blocked.max_trades"))
        ELSE Outcome(200, Some("position.open"))

\* An open_from_signal request is answered by the step that decides it (the
\* step that only stores the response of a position already committed aside).
OpenAnswered ==
    /\ resp' # resp
    /\ resp'.kind = "open"
    /\ \A sl \in Slots : ~At(sl, "open", "store")

\* C10: open_from_signal answers with the earliest failing precondition of the
\* order replay, signal exists / owned / EXECUTING, entry price, kill-switch,
\* exposure caps, max open positions, cooldown, daily stop, max trades, and
\* the audit rows it writes are the one row of that precondition (none for the
\* replay and the signal errors): no later precondition is audited.
C10_EarliestPrecondition ==
    [][ OpenAnswered =>
            LET first == FirstFailing(resp') IN
            /\ resp'.status = first.status
            /\ resp'.cached = first.replay
            /\ IF first.action = None
               THEN NewEvents = EmptyBag
               ELSE /\ BagCardinality(NewEvents) = 1
                    /\ \A e \in BagToSet(NewEvents) :
                          e.action = Get(first.action) /\ e.user_id = resp'.user
            /\ (first.status # 200 /\ first.action # None) => resp'.body = Get(first.action) ]_vars

\* C10 witness: an open request was blocked on max open positions while the
\* cooldown of the trader was running too.
C10_Witness ==
    /\ resp.kind = "open"
    /\ resp.status = 409
    /\ resp.body = "position.open.blocked.max_open_positions"
    /\ CooldownRuns(resp.user, resolve_risk_profile(resp.user))
    /\ Cardinality(OpenPositions(resp.user)) >= resolve_risk_profile(resp.user).max_open_positions

----------------------------------------------------------------------------
(* The gates in front of the operations. *)

KillSwitchAction == "execution.blocked.kill_switch"

\* An open, a pretrade check or a test order is answered in this step.
TradingPathAnswered == resp' # resp /\ resp'.kind \in {"open", "pretrade", "test_order"}

\* The step answers 409 with the kill-switch block and writes its one audit row.
KillSwitchBlocked ==
    /\ resp'.status = 409
    /\ resp'.body = KillSwitchAction
    /\ BagCardinality(NewEvents) = 1
    /\ \A e \in BagToSet(NewEvents) : e.action = KillSwitchAction /\ e.user_id = resp'.user

\* The step neither answers with the kill-switch block nor audits one.
NotKillSwitchBlocked ==
    /\ ~(resp'.status = 409 /\ resp'.body = KillSwitchAction)
    /\ \A e \in BagToSet(NewEvents) : e.action # KillSwitchAction

\* The request gets as far as the kill-switch check: pretrade checks and test
\* orders start with it, an open runs the replay check and validates its signal
\* first.
ReachesKillSwitch(r) == r.kind # "open" \/ FirstFailing(r).action # None

\* C11 as stated: while trading is disabled every open_from_signal, pretrade
\* check and test order call is answered 409 with one audit row
\* execution.blocked.kill_switch and creates no position; while trading is
\* enabled no such call is blocked by the kill-switch.
C11_KillSwitch ==
    [][ TradingPathAnswered =>
            IF ~get_trading_enabled
            THEN KillSwitchBlocked /\ positions' = positions
            ELSE NotKillSwitchBlocked ]_vars

\* C11 amended: while trading is disabled no call creates a position, and every
\* call that reaches the kill-switch check is answered 409 with one audit row
\* execution.blocked.kill_switch; an open stopped before that check (a replay,
\* a key conflict, a signal error) gets that earlier answer and no audit row.
\* While trading is enabled no call is blocked by the kill-switch.
C11_KillSwitchWhenReached ==
    [][ TradingPathAnswered =>
            IF ~get_trading_enabled
            THEN /\ positions' = positions
                 /\ IF ReachesKillSwitch(resp')
                    THEN KillSwitchBlocked
                    ELSE /\ resp'.status = FirstFailing(resp').status
                         /\ NewEvents = EmptyBag
            ELSE NotKillSwitchBlocked ]_vars

\* C11 witness: a test order was blocked by the kill-switch, the admin enabled
\* trading again, and the same kind of call was sent to the exchange.
C11_Witness ==
    /\ \E e \in BagToSet(audit) : e.action = KillSwitchAction /\ e.user_id = Trader
    /\ get_trading_enabled
    /\ resp.kind = "test_order"
    /\ resp.user = Trader
    /\ resp.status = 200

BlockActions ==
    { "execution.blocked.kill_switch", "execution.blocked.exposure.symbol_qty",
      "execution.blocked.exposure.exchange_notional",
      "position.open.blocked.max_open_positions", "position.open.blocked.cooldown",
      "position.open.blocked.daily_stop", "position.open.blocked.max_trades",
      "execution.blocked.exchange_disabled" }

\* The step answers a request with a risk-block error.
RiskBlockReturned ==
    /\ resp' # resp
    /\ resp'.status \in {403, 409}
    /\ resp'.body \in BlockActions

\* The audit rows of risk blocks this step adds.
BlockedEvents == { e \in BagToSet(NewEvents) : e.action \in BlockActions }

\* C12: a step that returns a risk-block error commits exactly one audit row,
\* the one naming that block, creates no position and changes no signal (the
\* signal of a blocked open stays EXECUTING); and a step that writes the audit
\* row of a risk block returns that block: the request ends there, none starts
\* or goes on.
C12_BlockPaired ==
    [][ /\ RiskBlockReturned =>
            /\ BagCardinality(NewEvents) = 1
            /\ \A e \in BagToSet(NewEvents) :
                  e.action = resp'.body /\ e.user_id = resp'.user
            /\ positions' = positions
            /\ signals' = signals
            /\ resp'.kind = "open" => signals'[resp'.a.signal_id].status = "EXECUTING"
        /\ BlockedEvents # {} =>
            /\ resp'.status \in {403, 409}
            /\ \A e \in BlockedEvents : resp'.body = e.action /\ resp'.user = e.user_id
            /\ \A sl \in Slots : req'[sl] = Idle \/ req'[sl] = req[sl]
            /\ positions' = positions ]_vars

\* C12 witness: the trader's exchange is disabled and a test order of the
\* trader was rejected with the audit row of that block.
C12_Witness ==
    /\ ~is_exchange_enabled_for_user(Trader, "BINANCE")
    /\ resp.kind = "test_order"
    /\ resp.status = 403
    /\ resp.body = "execution.blocked.exchange_disabled"
    /\ \E e \in BagToSet(audit) :
          e.action = "execution.blocked.exchange_disabled" /\ e.user_id = Trader

----------------------------------------------------------------------------
(* The open as one unit. *)

\* The opens committed under an idempotency key: <<user, endpoint, key hash>>.
KeyedOpens == { k \in BagToSet(executed) : k[2] = OpenEndpoint }

\* C13: a successful open_from_signal is durable as one unit: in no state is
\* the position of a request with an idempotency key committed while the
\* idempotency record of that key is missing.
C13_OpenOneUnit ==
    \A k \in KeyedOpens : IdemRows(k[1], k[2], k[3]) # {}

----------------------------------------------------------------------------
(* The daily counters. *)

TodayRows(u) == { i \in DOMAIN daily : daily[i].user_id = u /\ daily[i].day = today_colombia }

\* C14 as stated: trades_today of the user's row for the current day never
\* exceeds the row's max_trades.
C14_TradesWithinLimit ==
    \A u \in Users : \A i \in TodayRows(u) : daily[i].trades_today <= daily[i].max_trades

\* C14 amended: trades are counted when positions are closed and limited when
\* they are opened, so with requests served one at a time trades_today plus the
\* user's OPEN positions stays within max_trades - 1 + max_open_positions of
\* the user's profile, and trades_today within that too.
C14_TradesPlusOpenWithinLimit ==
    \A u \in Users :
        TradesToday(u) + Cardinality(OpenPositions(u))
            <= resolve_risk_profile(u).max_trades_per_day - 1
               + resolve_risk_profile(u).max_open_positions

\* C14 witness: the trader closed the position that was still open when
\* trades_today reached max_trades, and trades_today is above max_trades.
C14_Witness ==
    /\ TradesToday(Trader) > resolve_risk_profile(Trader).max_trades_per_day
    /\ OpenPositions(Trader) = {}
    /\ resp.kind = "close"
    /\ resp.status = 200

\* The position.close rows this step adds for the user.
NewCloses(u) == { e \in BagToSet(NewEvents) : e.action = "position.close" /\ e.user_id = u }

\* C15: only a successful close changes the daily counters: the step that
\* commits a close adds exactly 1 to trades_today and exactly the realized PnL
\* of the closed position to realized_pnl_today of the closer's rows, and every
\* other step (a successful or blocked open among them) leaves both unchanged.
C15_OnlyCloseCounts ==
    [][ \A u \in Users :
          IF NewCloses(u) = {}
          THEN /\ TradesRecorded(u)' = TradesRecorded(u)
               /\ PnlRecorded(u)' = PnlRecorded(u)
          ELSE \A e \in NewCloses(u) :
                 /\ TradesRecorded(u)' = TradesRecorded(u) + 1
                 /\ PnlRecorded(u)' = PnlRecorded(u) + Get(e.details).realized_pnl ]_vars

\* The step is an access of the user to the daily row: the commit of an open or
\* of a close that loaded or created it, or risk/today.
RowAccess(u) ==
    \/ \E sl \in Slots : /\ req[sl].kind \in {"open", "close"}
                          /\ req[sl].pc = "finish"
                          /\ req[sl].user = u
                          /\ req'[sl] # req[sl]
    \/ resp' # resp /\ resp'.kind = "risk_today" /\ resp'.user = u

\* C16: a row is created with the thresholds of the user's resolved profile and
\* counters that hold nothing but the close that created it; every access
\* (open, close, risk/today) leaves today's row with the thresholds of the
\* currently resolved profile and, unless it is a close, with the counters it
\* had; a profile change itself leaves the rows alone; daily_stop is never
\* positive.
C16_ThresholdsFollowProfile ==
    [][ /\ \A i \in DOMAIN daily' : daily'[i].daily_stop <= 0
        /\ \A i \in DOMAIN daily' \ DOMAIN daily :
              LET profile == resolve_risk_profile(daily'[i].user_id)
                  closes == NewCloses(daily'[i].user_id)
              IN  /\ daily'[i].daily_stop = -Abs(profile.max_daily_loss_pct)
                  /\ daily'[i].max_trades = profile.max_trades_per_day
                  /\ IF closes = {}
                     THEN daily'[i].trades_today = 0 /\ daily'[i].realized_pnl_today = 0
                     ELSE /\ daily'[i].trades_today = 1
                          /\ \A e \in closes :
                                daily'[i].realized_pnl_today = Get(e.details).realized_pnl
        /\ \A u \in Users :
              RowAccess(u) =>
                  \A i \in DOMAIN daily :
                      (daily[i].user_id = u /\ daily[i].day = today_colombia) =>
                          /\ daily'[i].daily_stop
                                = -Abs(resolve_risk_profile(u).max_daily_loss_pct)
                          /\ daily'[i].max_trades
                                = resolve_risk_profile(u).max_trades_per_day
                          /\ NewCloses(u) = {} =>
                                /\ daily'[i].trades_today = daily[i].trades_today
                                /\ daily'[i].realized_pnl_today = daily[i].realized_pnl_today
        /\ override' # override => daily' = daily ]_vars

\* C16 witness: the trader's row was written under one profile and holds a
\* closed trade; the admin has set the other profile, and risk/today answered
\* with the thresholds of the new profile and the counters of the row.
C16_Witness ==
    /\ override[Trader] = Some(PROFILE_MODEL2.profile_name)
    /\ resp.kind = "risk_today"
    /\ resp.status = 200
    /\ resp.body.daily_stop = -Abs(PROFILE_MODEL2.max_daily_loss_pct)
    /\ resp.body.max_trades = PROFILE_MODEL2.max_trades_per_day
    /\ resp.body.trades_today = 1
    /\ \E i \in TodayRows(Trader) :
          /\ daily[i].daily_stop = resp.body.daily_stop
          /\ daily[i].max_trades = resp.body.max_trades
          /\ daily[i].trades_today = 1
          /\ daily[i].realized_pnl_today = resp.body.realized_pnl_today

\* C17: the step that commits a close of a LONG position stores
\* realized_pnl = (exit_price - entry_price) * qty - fees and the fees, and a
\* close with a negative realized PnL lowers realized_pnl_today of the closer.
C17_ClosePnl ==
    [][ \A u \in Users : \A e \in NewCloses(u) :
          LET pid == Get(e.entity_id)
              pnl == (resp'.a.exit_price - positions[pid].entry_price) * positions[pid].qty
                     - resp'.a.fees
          IN  /\ positions'[pid].realized_pnl = Some(pnl)
              /\ positions'[pid].fees = Some(resp'.a.fees)
              /\ pnl < 0 => PnlRecorded(u)' < PnlRecorded(u) ]_vars

----------------------------------------------------------------------------
(* The cooldown between trades. *)

\* C18: the cooldown gate keeps the trades of a user apart: any two positions
\* of one user were opened at least cooldown_between_trades_minutes apart, and
\* a position opened after another one was closed was opened at least the
\* cooldown after that close.
C18_CooldownApart ==
    \A i, j \in DOMAIN positions :
        (i # j /\ positions[i].user = positions[j].user) =>
            LET cooldown ==
                    resolve_risk_profile(positions[i].user).cooldown_between_trades_minutes
            IN  /\ Abs(positions[i].opened_at - positions[j].opened_at) >= cooldown
                /\ (/\ IsSome(positions[i].closed_at)
                    /\ positions[j].opened_at > Get(positions[i].closed_at))
                   => positions[j].opened_at - Get(positions[i].closed_at) >= cooldown

----------------------------------------------------------------------------
(* Disabled exchanges. *)

\* C20: no trading-affecting operation proceeds for a user on an exchange whose
\* strategy assignment is disabled: no step creates a position of the user in
\* a symbol of that exchange, and no exit check or test order of the user for
\* that exchange is answered with a result.
C20_DisabledExchangeStops ==
    [][ /\ \A i \in DOMAIN positions' \ DOMAIN positions :
              is_exchange_enabled_for_user(positions'[i].user,
                                           infer_exchange_from_symbol(positions'[i].symbol))
        /\ (/\ resp' # resp
            /\ resp'.kind \in {"exit_check", "test_order"}
            /\ resp'.status = 200)
           => is_exchange_enabled_for_user(resp'.user, resp'.a.exchange) ]_vars

----------------------------------------------------------------------------
(* Exposure caps. *)

ExposureActions == { "execution.blocked.exposure.symbol_qty",
                     "execution.blocked.exposure.exchange_notional" }

\* The request's symbol, exchange and notional: an open takes them from its
\* signal, a pretrade check or test order from its payload and endpoint, with
\* a price estimate of 0.
Projected(r) ==
    IF r.kind = "open"
    THEN [ symbol |-> signals[r.a.signal_id].symbol,
           exchange |-> infer_exchange_from_symbol(signals[r.a.signal_id].symbol),
           qty |-> r.a.qty,
           notional |-> r.a.qty * (IF IsSome(signals[r.a.signal_id].entry_price)
                                   THEN Get(signals[r.a.signal_id].entry_price) ELSE 0) ]
    ELSE [ symbol |-> r.a.payload.symbol, exchange |-> r.a.exchange,
           qty |-> r.a.payload.qty, notional |-> 0 ]

OverSymbolCap(r) ==
    /\ cfg.MAX_OPEN_QTY_PER_SYMBOL > 0
    /\ OpenQtySymbol(r.user, Projected(r).symbol) + Projected(r).qty
         > cfg.MAX_OPEN_QTY_PER_SYMBOL

OverNotionalCap(r) ==
    /\ cfg.MAX_OPEN_NOTIONAL_PER_EXCHANGE > 0
    /\ OpenNotionalExchange(r.user, Projected(r).exchange) + Projected(r).notional
         > cfg.MAX_OPEN_NOTIONAL_PER_EXCHANGE

\* The request names a symbol (an open: through a signal that exists) and is
\* over a cap.
OverCap(r) ==
    /\ r.kind = "open" => r.a.signal_id \in DOMAIN signals
    /\ OverSymbolCap(r) \/ OverNotionalCap(r)

\* The request gets as far as the exposure check.
ReachesExposure(r) ==
    CASE r.kind = "open" -> FirstFailing(r).action \notin {None, Some(KillSwitchAction)}
      [] r.kind = "pretrade" -> get_trading_enabled
      [] r.kind = "test_order" ->
            get_trading_enabled /\ is_exchange_enabled_for_user(r.user, r.a.exchange)

\* The step answers 409 with an exposure block and writes its one audit row.
ExposureBlocked ==
    /\ resp'.status = 409
    /\ resp'.body \in ExposureActions
    /\ BagCardinality(NewEvents) = 1
    /\ \A e \in BagToSet(NewEvents) : e.action = resp'.body /\ e.user_id = resp'.user

\* An open, a pretrade check or a test order is answered by the step that
\* decides it.
GatedAnswered == TradingPathAnswered /\ \A sl \in Slots : ~At(sl, "open", "store")

\* With a cap on the quantity per symbol, no user holds more than the cap OPEN
\* in the trader's symbol.
WithinSymbolCap ==
    cfg.MAX_OPEN_QTY_PER_SYMBOL > 0 =>
        \A u \in Users : OpenQtySymbol(u, TraderSymbol) <= cfg.MAX_OPEN_QTY_PER_SYMBOL

\* C19 as stated: every open, pretrade check and test order over a cap > 0 is
\* answered 409 with an execution.blocked.exposure.* audit row, a request over
\* no cap (all requests when the caps are 0) is not; and the OPEN quantity of a
\* user in one symbol stays within the cap.
C19_ExposureCaps ==
    [][ /\ GatedAnswered =>
            IF OverCap(resp')
            THEN ExposureBlocked
            ELSE ~(resp'.status = 409 /\ resp'.body \in ExposureActions)
        /\ WithinSymbolCap' ]_vars

\* C19 amended: every open, pretrade check and test order that reaches the
\* exposure check and is over a cap > 0 is answered 409 with the audit row of
\* the cap it exceeds (the symbol cap first); a request stopped before the
\* check, or over no cap, gets no exposure block; and with requests served one
\* at a time the OPEN quantity of a user in one symbol stays within the cap.
C19_ExposureCapsWhenReached ==
    [][ /\ GatedAnswered =>
            IF ReachesExposure(resp') /\ OverCap(resp')
            THEN /\ ExposureBlocked
                 /\ resp'.body = IF OverSymbolCap(resp')
                                 THEN "execution.blocked.exposure.symbol_qty"
                                 ELSE "execution.blocked.exposure.exchange_notional"
                 /\ positions' = positions
            ELSE /\ ~(resp'.status = 409 /\ resp'.body \in ExposureActions)
                 /\ \A e \in BagToSet(NewEvents) : e.action \notin ExposureActions
        /\ WithinSymbolCap' ]_vars

\* C19 witness: under a cap of 2 per symbol the trader held 1, an open of 2
\* more was blocked on the cap, and an open of 1 more went through: the trader
\* holds exactly the cap.
C19_Witness ==
    /\ cfg.MAX_OPEN_QTY_PER_SYMBOL = 2
    /\ OpenQtySymbol(Trader, TraderSymbol) = 2
    /\ \E e \in BagToSet(audit) :
          e.action = "execution.blocked.exposure.symbol_qty" /\ e.user_id = Trader
    /\ resp.kind = "open"
    /\ resp.status = 200
    /\ resp.body.id = 2


----------------------------------------------------------------------------
(* The pre-trade and exit evaluations *)

\* the response of an evaluation, first or replayed
PretradeEvaluated == resp.kind = "pretrade" /\ resp.status = 200

CheckNames(checks) == [i \in DOMAIN checks |-> checks[i].name]

FailedChecks(checks) == { checks[i].name : i \in { j \in DOMAIN checks : ~checks[j].passed } }

AccountCheckNames ==
    << "strategy_enabled", "exchange_secret_configured", "daily_stop_not_reached",
       "max_trades_not_reached", "max_open_positions_not_reached", "cooldown_passed" >>

StrategyCheckNames ==
    << "strategy_rr_min", "strategy_trend_tf", "strategy_signal_tf", "strategy_timing_tf" >>

BinanceCheckNames == << "liq_volume_24h", "liq_spread_bps", "liq_slippage_bps" >>

IbkrCheckNames == << "ibkr_in_rth", "ibkr_no_macro_block", "ibkr_no_earnings_24h" >>

ExchangeCheckNames(exchange) ==
    IF exchange = "BINANCE" THEN BinanceCheckNames ELSE IbkrCheckNames

\* C21: every pre-trade result lists every check of the fixed list, in the fixed
\* order (the six account checks, the four strategy checks, the three checks of
\* the exchange), whichever of them fail, and passed is true exactly when every
\* listed check passed.
C21_EveryCheckListed ==
    PretradeEvaluated =>
        /\ CheckNames(resp.body.checks) =
              AccountCheckNames \o StrategyCheckNames \o ExchangeCheckNames(resp.a.exchange)
        /\ resp.body.passed = (FailedChecks(resp.body.checks) = {})

\* The first check failed, later ones failed and passed, and all are listed.
C21_Witness ==
    /\ PretradeEvaluated
    /\ ~resp.body.passed
    /\ Len(resp.body.checks) = 13
    /\ { "strategy_enabled", "cooldown_passed", "strategy_rr_min" }
          \subseteq FailedChecks(resp.body.checks)
    /\ "liq_volume_24h" \in
          { resp.body.checks[i].name : i \in DOMAIN resp.body.checks }
          \ FailedChecks(resp.body.checks)


\* whether the named check of the list passed (false when it is not listed)
CheckPassed(checks, name) == \E i \in DOMAIN checks : checks[i] = Check(name, TRUE)

\* C22: strategy_rr_min passes exactly when rr_estimate is at least 1.3 under
\* INTRADAY_V1 and at least 1.5 otherwise; under INTRADAY_V1 the trend timeframe
\* must be 1H, the signal timeframe 15M and the timing timeframe 5M or 15M;
\* otherwise IBKR allows trend 1D or 4H, signal 1H or 30M, timing 5M or 15M and
\* Binance allows trend 4H, signal 1H, timing 15M.
C22_StrategyThresholds ==
    PretradeEvaluated =>
        LET p == resp.a.payload
            checks == resp.body.checks
            intraday == resp.body.strategy_id = "INTRADAY_V1"
            ibkr == resp.a.exchange = "IBKR"
        IN  /\ CheckPassed(checks, "strategy_rr_min") =
                  IF intraday THEN p.rr_estimate >= 13 ELSE p.rr_estimate >= 15
            /\ CheckPassed(checks, "strategy_trend_tf") =
                  IF intraday THEN p.trend_tf = "1H"
                  ELSE IF ibkr THEN p.trend_tf \in {"1D", "4H"} ELSE p.trend_tf = "4H"
            /\ CheckPassed(checks, "strategy_signal_tf") =
                  IF intraday THEN p.signal_tf = "15M"
                  ELSE IF ibkr THEN p.signal_tf \in {"1H", "30M"} ELSE p.signal_tf = "1H"
            /\ CheckPassed(checks, "strategy_timing_tf") =
                  IF intraday THEN p.timing_tf \in {"5M", "15M"}
                  ELSE IF ibkr THEN p.timing_tf \in {"5M", "15M"} ELSE p.timing_tf = "15M"

\* An estimate of exactly 1.3 passes under INTRADAY_V1 while the trend
\* timeframe 4H does not.
C22_Witness ==
    /\ PretradeEvaluated
    /\ resp.body.strategy_id = "INTRADAY_V1"
    /\ resp.a.payload.rr_estimate = 13
    /\ CheckPassed(resp.body.checks, "strategy_rr_min")
    /\ resp.a.payload.trend_tf = "4H"
    /\ ~CheckPassed(resp.body.checks, "strategy_trend_tf")


Range(seq) == { seq[i] : i \in DOMAIN seq }

\* the checks listed after the four strategy checks
ExchangeChecks(checks) ==
    SubSeq(checks, Len(AccountCheckNames) + Len(StrategyCheckNames) + 1, Len(checks))

\* C23: after the timeframe checks a Binance result lists exactly liq_volume_24h
\* (at least 80M under INTRADAY_V1, else 50M), liq_spread_bps (at most 8, else 10)
\* and liq_slippage_bps (at most 12, else 15); an IBKR result lists exactly
\* ibkr_in_rth, ibkr_no_macro_block (not macro_event_block) and
\* ibkr_no_earnings_24h (not earnings_within_24h); no check of the other exchange
\* is listed anywhere.
C23_ExchangeChecks ==
    PretradeEvaluated =>
        LET p == resp.a.payload
            checks == resp.body.checks
            intraday == resp.body.strategy_id = "INTRADAY_V1"
        IN  IF resp.a.exchange = "BINANCE"
            THEN /\ ExchangeChecks(checks) =
                       << Check("liq_volume_24h",
                                p.volume_24h_usdt >= IF intraday THEN 80 ELSE 50),
                          Check("liq_spread_bps",
                                p.spread_bps <= IF intraday THEN 8 ELSE 10),
                          Check("liq_slippage_bps",
                                p.slippage_bps <= IF intraday THEN 12 ELSE 15) >>
                 /\ Range(CheckNames(checks)) \cap Range(IbkrCheckNames) = {}
            ELSE /\ ExchangeChecks(checks) =
                       << Check("ibkr_in_rth", p.in_rth),
                          Check("ibkr_no_macro_block", ~p.macro_event_block),
                          Check("ibkr_no_earnings_24h", ~p.earnings_within_24h) >>
                 /\ Range(CheckNames(checks)) \cap Range(BinanceCheckNames) = {}

\* A Binance result under INTRADAY_V1 that fails on a volume of 79M, and
\* would not under the swing threshold.
C23_Witness ==
    /\ PretradeEvaluated
    /\ resp.a.exchange = "BINANCE"
    /\ resp.body.strategy_id = "INTRADAY_V1"
    /\ resp.a.payload.volume_24h_usdt = 79
    /\ ~CheckPassed(resp.body.checks, "liq_volume_24h")
    /\ CheckPassed(resp.body.checks, "liq_spread_bps")


PretradeActions == { "pretrade.check.passed", "pretrade.check.blocked" }

\* the audit action that goes with a list of checks
PretradeAction(checks) ==
    IF FailedChecks(checks) = {} THEN "pretrade.check.passed" ELSE "pretrade.check.blocked"

\* the audit events of a user's evaluation with this list of checks
PretradeEvents(log, u, checks) ==
    { e \in BagToSet(log) : /\ e.action = PretradeAction(checks)
                            /\ e.user_id = u
                            /\ e.details = Some([checks |-> checks]) }

\* a slot leaves the evaluation step
Evaluates(sl) == At(sl, "pretrade", "evaluate") /\ req'[sl] # req[sl]

\* C24: every pre-trade evaluation, passing or blocked, writes exactly one audit
\* event, pretrade.check.passed or pretrade.check.blocked according to its
\* checks and carrying the whole list of 13; and every evaluation result that
\* is returned has its audit event in the log.
C24_EvaluationAudited ==
    [][ /\ \A sl \in Slots :
              Evaluates(sl) =>
                  /\ BagCardinality(NewEvents) = 1
                  /\ \A e \in BagToSet(NewEvents) :
                        /\ e.action \in PretradeActions
                        /\ e.user_id = req[sl].user
                        /\ IsSome(e.details)
                        /\ Len(Get(e.details).checks) = 13
                        /\ e.action = PretradeAction(Get(e.details).checks)
        /\ (resp' # resp /\ resp'.kind = "pretrade" /\ resp'.status = 200) =>
              PretradeEvents(audit', resp'.user, resp'.body.checks) # {}
        /\ (\E e \in BagToSet(NewEvents) : e.action \in PretradeActions) =>
              \E sl \in Slots : Evaluates(sl) ]_vars

\* A blocked result was returned and its event is in the log.
C24_Witness ==
    /\ PretradeEvaluated
    /\ ~resp.body.passed
    /\ \E e \in PretradeEvents(audit, resp.user, resp.body.checks) :
          e.action = "pretrade.check.blocked" /\ audit[e] = 1


\* the response of an exit evaluation
ExitEvaluated == resp.kind = "exit_check" /\ resp.status = 200

\* the hold limit in minutes
MaxHoldMinutes(strategy_id) == IF strategy_id = "INTRADAY_V1" THEN 240 ELSE 480

\* C25: time_limit_reached is a reason exactly when opened_minutes exceeds the
\* hold limit, 240 minutes under INTRADAY_V1 and 480 otherwise.
C25_TimeLimitExceeded ==
    ExitEvaluated =>
        ("time_limit_reached" \in Range(resp.body.reasons)
            <=> resp.a.payload.opened_minutes > MaxHoldMinutes(resp.body.strategy_id))


ReasonOrder ==
    << "stop_loss_hit", "take_profit_hit", "time_limit_reached", "trend_break",
       "signal_reverse", "event_risk_exit" >>

\* the reasons of the order that are in the set, in that order and once each
InOrder(set) == SelectSeq(ReasonOrder, LAMBDA r : r \in set)

\* C26: the reasons of an exit result are a subsequence of stop_loss_hit,
\* take_profit_hit, time_limit_reached, trend_break, signal_reverse,
\* event_risk_exit without repeats; a long position at its stop with a trend
\* break and nothing else gets exactly stop_loss_hit, trend_break.
C26_ReasonsInOrder ==
    ExitEvaluated =>
        LET p == resp.a.payload IN
        /\ resp.body.reasons = InOrder(Range(resp.body.reasons))
        /\ ( /\ p.side = "BUY"
             /\ p.current_price <= p.stop_loss
             /\ p.current_price < p.take_profit
             /\ p.opened_minutes < 240
             /\ p.trend_break
             /\ ~p.signal_reverse
             /\ ~p.macro_event_block
             /\ ~p.earnings_within_24h )
           => resp.body.reasons = << "stop_loss_hit", "trend_break" >>

\* A long position exactly at its stop with a trend break.
C26_Witness ==
    /\ ExitEvaluated
    /\ resp.body.reasons = << "stop_loss_hit", "trend_break" >>
    /\ resp.a.payload.current_price = resp.a.payload.stop_loss


\* C27: for a BUY position stop_loss_hit is a reason exactly when the current
\* price is at or below the stop and take_profit_hit exactly when it is at or
\* above the target; for a SELL position stop_loss_hit exactly when the price is
\* at or above the stop and take_profit_hit exactly when it is at or below the
\* target. The two checks pass exactly when their reasons are given.
C27_StopAndTarget ==
    ExitEvaluated =>
        LET p == resp.a.payload
            reasons == Range(resp.body.reasons)
            checks == resp.body.checks
        IN  /\ p.side \in Sides
            /\ p.side = "BUY" =>
                  /\ "stop_loss_hit" \in reasons <=> p.current_price <= p.stop_loss
                  /\ "take_profit_hit" \in reasons <=> p.current_price >= p.take_profit
            /\ p.side = "SELL" =>
                  /\ "stop_loss_hit" \in reasons <=> p.current_price >= p.stop_loss
                  /\ "take_profit_hit" \in reasons <=> p.current_price <= p.take_profit
            /\ CheckPassed(checks, "exit_stop_loss_hit") <=> "stop_loss_hit" \in reasons
            /\ CheckPassed(checks, "exit_take_profit_hit") <=> "take_profit_hit" \in reasons

\* A short position exactly at its stop: stopped, and at or below the target.
C27_Witness ==
    /\ ExitEvaluated
    /\ resp.a.payload.side = "SELL"
    /\ resp.a.payload.current_price = resp.a.payload.stop_loss
    /\ "stop_loss_hit" \in Range(resp.body.reasons)
    /\ "take_profit_hit" \in Range(resp.body.reasons)


\* the payload with its two event flags cleared
WithoutEvents(p) == [p EXCEPT !.macro_event_block = FALSE, !.earnings_within_24h = FALSE]

\* C28: exit_event_risk is a check of IBKR results only: there it is the last
\* check, it passes exactly when macro_event_block or earnings_within_24h is set
\* and exactly then event_risk_exit is a reason. A Binance result has no such
\* check and no such reason, and its reasons and should_exit are those of the
\* same request with both flags cleared.
C28_EventRiskOnIbkr ==
    ExitEvaluated =>
        LET p == resp.a.payload
            checks == resp.body.checks
            reasons == Range(resp.body.reasons)
            event == p.macro_event_block \/ p.earnings_within_24h
        IN  IF resp.a.exchange = "IBKR"
            THEN /\ checks[Len(checks)] = Check("exit_event_risk", event)
                 /\ "exit_event_risk" \notin Range(CheckNames(SubSeq(checks, 1, Len(checks) - 1)))
                 /\ "event_risk_exit" \in reasons <=> event
            ELSE /\ "exit_event_risk" \notin Range(CheckNames(checks))
                 /\ "event_risk_exit" \notin reasons
                 /\ resp.body.reasons =
                       _build_exit_checks(resp.a.exchange, resp.body.strategy_id,
                                          WithoutEvents(p)).reasons
                 /\ resp.body.should_exit = (resp.body.reasons # <<>>)

\* A Binance request with both flags set and nothing else is a hold.
C28_Witness ==
    /\ ExitEvaluated
    /\ resp.a.exchange = "BINANCE"
    /\ resp.a.payload.macro_event_block
    /\ resp.a.payload.earnings_within_24h
    /\ ~resp.body.should_exit
    /\ resp.body.reasons = <<>>


ExitActions == { "exit.check.triggered", "exit.check.hold" }

\* a slot leaves the exit evaluation step
EvaluatesExit(sl) == At(sl, "exit_check", "evaluate") /\ req'[sl] # req[sl]

\* C29: in every exit result should_exit is true exactly when the reasons are
\* not empty, which is exactly when at least one exit check passed; the
\* evaluation writes exactly one audit event, exit.check.triggered when
\* should_exit and exit.check.hold otherwise, and nothing else writes one.
C29_ShouldExit ==
    [][ /\ \A sl \in Slots :
              EvaluatesExit(sl) =>
                  /\ resp'.kind = "exit_check" /\ resp'.status = 200
                  /\ resp'.user = req[sl].user
                  /\ resp'.body.should_exit = (resp'.body.reasons # <<>>)
                  /\ resp'.body.should_exit =
                        (\E i \in DOMAIN resp'.body.checks : resp'.body.checks[i].passed)
                  /\ BagCardinality(NewEvents) = 1
                  /\ \A e \in BagToSet(NewEvents) :
                        /\ e.user_id = req[sl].user
                        /\ e.action = IF resp'.body.should_exit THEN "exit.check.triggered"
                                      ELSE "exit.check.hold"
                        /\ Get(e.details).should_exit = resp'.body.should_exit
                        /\ Get(e.details).reasons = resp'.body.reasons
        /\ (\E e \in BagToSet(NewEvents) : e.action \in ExitActions) =>
              \E sl \in Slots : EvaluatesExit(sl) ]_vars

\* One forced exit for the hold limit alone, with its event.
C29_Witness ==
    /\ ExitEvaluated
    /\ resp.body.should_exit
    /\ resp.body.reasons = << "time_limit_reached" >>
    /\ \E e \in BagToSet(audit) :
          /\ e.action = "exit.check.triggered"
          /\ e.user_id = resp.user
          /\ audit[e] = 1
    /\ \A e \in BagToSet(audit) : e.action # "exit.check.hold"


----------------------------------------------------------------------------
(* Rejections *)

\* the status that refuses the open of this signal by this user, 0 if none does
OpenRejection(u, signal_id) ==
    IF signal_id \notin DOMAIN signals THEN 404
    ELSE IF signals[signal_id].user # u THEN 403
    ELSE IF signals[signal_id].status # "EXECUTING" THEN 409
    ELSE IF signals[signal_id].entry_price = None THEN 400
    ELSE 0

\* the status that refuses the close of this position by this user, 0 if none does
CloseRejection(u, position_id) ==
    IF position_id \notin DOMAIN positions THEN 404
    ELSE IF positions[position_id].user # u THEN 403
    ELSE IF positions[position_id].status # "OPEN" THEN 409
    ELSE 0

\* a slot leaves the signal checks of an open
ChecksSignal(sl) == At(sl, "open", "signal") /\ req'[sl] # req[sl]

\* the step refuses a close request: it answers and no handler goes on
RefusesClose == resp' # resp /\ resp'.kind = "close" /\ req' = req

NothingModified ==
    /\ UNCHANGED <<signals, positions, daily>>
    /\ \A e \in BagToSet(NewEvents) : e.action \notin BlockActions

\* C30: an open of a signal that does not exist (404), is another user's (403),
\* is not EXECUTING (409) or has no entry price (400), and a close of a position
\* that does not exist (404), is another user's (403) or is not OPEN (409), is
\* answered with that status and modifies no Position, Signal or DailyRiskState
\* row and writes no risk-block audit event; a close that goes on was none of
\* these.
C30_RejectionsChangeNothing ==
    [][ /\ \A sl \in Slots :
              (ChecksSignal(sl) /\ OpenRejection(req[sl].user, req[sl].a.signal_id) # 0) =>
                  /\ resp'.kind = "open"
                  /\ resp'.user = req[sl].user
                  /\ resp'.status = OpenRejection(req[sl].user, req[sl].a.signal_id)
                  /\ NothingModified
        /\ RefusesClose =>
              /\ resp'.status = CloseRejection(resp'.user, resp'.a.position_id)
              /\ resp'.status # 0
              /\ NothingModified
        /\ \A sl \in Slots :
              (~At(sl, "close", "daily") /\ At(sl, "close", "daily")') =>
                  CloseRejection(req'[sl].user, req'[sl].a.position_id) = 0 ]_vars

\* Another user's open of the trader's waiting signal was refused, and the
\* signal still waits.
C30_Witness ==
    /\ resp.kind = "open"
    /\ resp.status = 403
    /\ resp.user # Trader
    /\ signals[resp.a.signal_id].user = Trader
    /\ signals[resp.a.signal_id].status = "EXECUTING"
    /\ PositionsOfSignal(resp.a.signal_id) = {}


----------------------------------------------------------------------------
(* Errors and validation *)

TestOrderErrors ==
    { "execution.binance.test_order.error", "execution.ibkr.test_order.error" }

TestOrderEvents ==
    TestOrderErrors \cup
    { "execution.binance.test_order.success", "execution.ibkr.test_order.success" }

\* a slot with stored credentials leaves the step that calls the adapter
CallsAdapter(sl) ==
    /\ At(sl, "test_order", "execute")
    /\ req'[sl] # req[sl]
    /\ <<req[sl].user, req[sl].a.exchange>> \in secrets

\* the adapter call of the step failed
AdapterFailed == \E e \in BagToSet(NewEvents) : e.action \in TestOrderErrors

\* C31: a test order calls the adapter once and does not call it again by
\* itself; a call is traced by exactly one audit event; a failed call writes one
\* error event with the error text and answers 502 with that text, stores no
\* idempotent response and executes nothing, so that no row stands in the way of
\* a retry with the same key; a 502 is never answered without the failed call.
C31_AdapterFailureReported ==
    [][ /\ \A sl \in Slots :
              CallsAdapter(sl) =>
                  /\ ~At(sl, "test_order", "execute")'
                  /\ BagCardinality(NewEvents) = 1
                  /\ \A e \in BagToSet(NewEvents) :
                        e.action \in TestOrderEvents /\ e.user_id = req[sl].user
                  /\ AdapterFailed =>
                        /\ \A e \in BagToSet(NewEvents) :
                              /\ Get(e.details).error \in AdapterErrors
                              /\ resp'.body = TestOrderFailed(Get(e.details).error)
                        /\ resp'.kind = "test_order" /\ resp'.status = 502
                        /\ resp'.user = req[sl].user /\ resp'.key = req[sl].key
                        /\ req'[sl] = Idle
                        /\ UNCHANGED <<idem, executed>>
                        /\ StoredRows(resp') = {}
        /\ (resp' # resp /\ resp'.status = 502) =>
              AdapterFailed /\ \E sl \in Slots : CallsAdapter(sl)
        /\ (\E e \in BagToSet(NewEvents) : e.action \in TestOrderEvents) =>
              \E sl \in Slots : CallsAdapter(sl) ]_vars

\* After a failed call the same request, with the same key, is at the adapter
\* again.
C31_Witness ==
    /\ resp.kind = "test_order"
    /\ resp.status = 502
    /\ resp.body = TestOrderFailed("timeout")
    /\ EffectiveKey(resp.key) # None
    /\ \E e \in BagToSet(audit) : e.action \in TestOrderErrors /\ audit[e] = 1
    /\ \E sl \in Slots :
          /\ At(sl, "test_order", "execute")
          /\ req[sl].user = resp.user
          /\ req[sl].key = resp.key
          /\ req[sl].a = resp.a


\* the timeframes the strategies know
KnownTimeframes == { "1D", "4H", "1H", "30M", "15M", "5M" }

\* C32: a pre-trade request with malformed input, an unknown value of trend_tf,
\* signal_tf or timing_tf included, is rejected before any check runs and is not
\* audited: every request that reaches the evaluation has a side of BUY or SELL
\* and three known timeframes, and a validation error writes nothing.
C32_MalformedRejected ==
    [][ /\ \A sl \in Slots :
              Evaluates(sl) =>
                  /\ req[sl].a.payload.side \in Sides
                  /\ req[sl].a.payload.trend_tf \in KnownTimeframes
                  /\ req[sl].a.payload.signal_tf \in KnownTimeframes
                  /\ req[sl].a.payload.timing_tf \in KnownTimeframes
        /\ (resp' # resp /\ resp'.kind = "pretrade" /\ resp'.status = 422) =>
              UNCHANGED <<signals, positions, daily, idem, audit, req, executed>> ]_vars


----------------------------------------------------------------------------
(* Sessions *)

\* the request answered by this step
Answers(kind) == resp' # resp /\ resp'.kind = kind

\* the tokens a login or a refresh can issue
IssuableTokens ==
    { Token(u, typ, "new", iat, 3600) :
          u \in Users, typ \in { "access", "refresh" }, iat \in 0..(MaxClock + 1) }

\* the pair of the answer is accepted after the step: the access token by
\* get_current_user, the refresh token by the checks of refresh_tokens
PairAccepted ==
    \E access_token, refresh_token \in IssuableTokens :
        /\ access_token = resp'.body.access_token
        /\ refresh_token = resp'.body.refresh_token
        /\ get_current_user(access_token)'.status = 200
        /\ refresh_checks(refresh_token)'.status = 200

\* the token is refused both as an access token and as a refresh token
Rejected(token) ==
    get_current_user(token).status = 401 /\ refresh_checks(token).status = 401

\* C33: a revoked token is never accepted again and a rotation works: a token
\* whose jti is revoked is refused with 401 by every authenticated request and
\* every refresh; after a logout that succeeds the access token presented and
\* the caller's refresh token are refused; a refresh whose token passes the checks
\* answers 200, leaves that token revoked, and its new pair is accepted.
C33_RevokedNeverAccepted ==
    [][ /\ \A token \in AuthTokens : token.jti \in auth.revoked_token => Rejected(token)
        /\ (Answers("logout") /\ resp'.status = 200) =>
              \A token \in AuthTokens :
                  ( \/ token = resp'.a.token
                    \/ Some(token) = resp'.a.refresh_token /\ token.uid = resp'.user ) =>
                        Rejected(token)'
        /\ (Answers("refresh") /\ resp'.status # 401) =>
              /\ resp'.status = 200
              /\ resp'.a.refresh_token.jti \in auth'.revoked_token
              /\ PairAccepted ]_vars

\* the parts of C33 about tokens already revoked and about logout
C33_RevocationHolds ==
    [][ /\ \A token \in AuthTokens : token.jti \in auth.revoked_token => Rejected(token)
        /\ (Answers("logout") /\ resp'.status = 200) =>
              \A token \in AuthTokens :
                  ( \/ token = resp'.a.token
                    \/ Some(token) = resp'.a.refresh_token /\ token.uid = resp'.user ) =>
                        Rejected(token)' ]_vars

\* the token was issued at or before the marker of its user
BeforeMarker(token) ==
    /\ IsSome(auth.session_revocation[token.uid])
    /\ 2 * token.iat <= Get(auth.session_revocation[token.uid])

\* C34: after revoke-all every token of the user issued at or before the marker
\* is refused with 401, and a login with the right password answers 200 with a
\* pair issued strictly later than the marker, which is accepted, also within
\* the second of the marker.
C34_RevokeAllThenLogin ==
    [][ /\ \A token \in AuthTokens : BeforeMarker(token) => Rejected(token)
        /\ (Answers("login") /\ resp'.a.password_ok) =>
              /\ resp'.status = 200
              /\ IsSome(auth.session_revocation[resp'.user]) =>
                    2 * resp'.body.access_token.iat > Get(auth.session_revocation[resp'.user])
              /\ PairAccepted ]_vars

\* the part of C34 about the tokens issued before the marker
C34_MarkerHolds ==
    [][ \A token \in AuthTokens : BeforeMarker(token) => Rejected(token) ]_vars

----------------------------------------------------------------------------
(* Day rollover *)

\* the counters of the user's row of the day, 0 and 0 without a row
CountersOf(table, u, day) ==
    LET rows == { i \in DOMAIN table : table[i].user_id = u /\ table[i].day = day } IN
    IF rows = {} THEN [trades_today |-> 0, realized_pnl_today |-> 0]
    ELSE LET i == CHOOSE i \in rows : TRUE IN
         [ trades_today |-> table[i].trades_today,
           realized_pnl_today |-> table[i].realized_pnl_today ]

\* C35: the rows of other days are never changed; an open that reaches the
\* daily gates on a day without a row for the user is not blocked by them and
\* creates the position; a close adds 1 and its PnL to the counters of the row
\* of the day of the close (0 and 0 before the first use), whatever the day
\* the position was opened.
C35_RolloverResets ==
    [][ /\ Len(daily') >= Len(daily)
        /\ \A i \in DOMAIN daily : daily[i].day # today_colombia => daily'[i] = daily[i]
        /\ \A sl \in Slots :
              /\ ( /\ At(sl, "open", "finish") /\ ~At(sl, "open", "finish")'
                   /\ DailyRows(req[sl].user, today_colombia) = {} ) =>
                     /\ Len(positions') = Len(positions) + 1
                     /\ positions'[Len(positions')].status = "OPEN"
                     /\ CountersOf(daily', req[sl].user, today_colombia)
                            = [trades_today |-> 0, realized_pnl_today |-> 0]
                     /\ \E i \in DOMAIN daily' :
                           daily'[i].user_id = req[sl].user /\ daily'[i].day = today_colombia
              /\ (At(sl, "close", "finish") /\ ~At(sl, "close", "finish")') =>
                     /\ positions'[req[sl].a.position_id].status = "CLOSED"
                     /\ \E i \in DOMAIN daily' :
                           daily'[i].user_id = req[sl].user /\ daily'[i].day = today_colombia
                     /\ CountersOf(daily', req[sl].user, today_colombia) =
                            [ trades_today |->
                                  CountersOf(daily, req[sl].user, today_colombia).trades_today + 1,
                              realized_pnl_today |->
                                  CountersOf(daily, req[sl].user, today_colombia).realized_pnl_today
                                  + req[sl].l.realized_pnl ] ]_vars

\* the trader, at the limit of trades on the day before, has opened a position
\* on the new day and closed on the new day a position opened the day before
C35_Witness ==
    /\ \E i \in DOMAIN daily :
          /\ daily[i].user_id = Trader
          /\ daily[i].day = today_colombia - 1
          /\ daily[i].trades_today >= daily[i].max_trades
    /\ \E i \in DOMAIN daily :
          /\ daily[i].user_id = Trader
          /\ daily[i].day = today_colombia
          /\ daily[i].trades_today = 1
    /\ \E i \in DOMAIN positions :
          /\ positions[i].status = "OPEN"
          /\ (positions[i].opened_at - BogotaOffset) \div MinutesPerDay = today_colombia
    /\ \E i \in DOMAIN positions :
          /\ positions[i].status = "CLOSED"
          /\ (positions[i].opened_at - BogotaOffset) \div MinutesPerDay = today_colombia - 1
          /\ (Get(positions[i].closed_at) - BogotaOffset) \div MinutesPerDay = today_colombia

----------------------------------------------------------------------------
(* Statuses *)

\* the positions of the signal
PositionsOf(signal_id) == { p \in DOMAIN positions : positions[p].signal_id = signal_id }

\* the signal has exactly one position, and it has the status
OnePosition(signal_id, status) ==
    /\ Cardinality(PositionsOf(signal_id)) = 1
    /\ \A p \in PositionsOf(signal_id) : positions[p].status = status

\* C36: with requests that do not interleave, a signal is OPENED exactly when it
\* has one position and that position is OPEN, COMPLETED exactly when it has
\* one position and that position is CLOSED, a CREATED or EXECUTING signal has
\* no position, and a position belongs to the user of its signal.
C36_StatusesConsistent ==
    /\ \A i \in DOMAIN signals :
          /\ signals[i].status = "OPENED" <=> OnePosition(i, "OPEN")
          /\ signals[i].status = "COMPLETED" <=> OnePosition(i, "CLOSED")
          /\ signals[i].status \in { "CREATED", "EXECUTING" } => PositionsOf(i) = {}
    /\ \A p \in DOMAIN positions :
          /\ positions[p].signal_id \in DOMAIN signals
          /\ positions[p].user = signals[positions[p].signal_id].user

\* a close has just succeeded while another signal, opened in this run, is OPENED
C36_Witness ==
    /\ resp.kind = "close"
    /\ resp.status = 200
    /\ signals[positions[resp.a.position_id].signal_id].status = "COMPLETED"
    /\ \E p \in DOMAIN positions :
          /\ positions[p].status = "OPEN"
          /\ positions[p].opened_at >= StartNow
          /\ signals[positions[p].signal_id].status = "OPENED"

----------------------------------------------------------------------------
(* The trade limit and the open positions together *)

\* C37: with the profile of the user fixed and max_trades_per_day >= 1, and
\* requests that do not interleave, trades_today of the user's row of the
\* current day (0 without a row) plus the number of the user's OPEN positions
\* is at most max_trades_per_day + max_open_positions - 1.
C37_TradesPlusOpenBound ==
    \A u \in Users :
        LET profile == resolve_risk_profile(u) IN
        profile.max_trades_per_day >= 1 =>
            CountersOf(daily, u, today_colombia).trades_today
                + Cardinality(OpenPositions(u))
            <= profile.max_trades_per_day + profile.max_open_positions - 1

\* the trader is at the bound with a position open, and the open just asked
\* for was blocked by the limit of trades
C37_Witness ==
    /\ CountersOf(daily, Trader, today_colombia).trades_today
          + Cardinality(OpenPositions(Trader))
       = resolve_risk_profile(Trader).max_trades_per_day
          + resolve_risk_profile(Trader).max_open_positions - 1
    /\ OpenPositions(Trader) # {}
    /\ resp.kind = "open"
    /\ resp.status = 409
    /\ \E e \in BagToSet(audit) :
          e.action = "position.open.blocked.max_trades" /\ e.user_id = Trader

----------------------------------------------------------------------------
(* The pretrade risk checks and the open gate *)

RiskCheckNames ==
    { "daily_stop_not_reached", "max_trades_not_reached",
      "max_open_positions_not_reached", "cooldown_passed" }

RiskGateActions ==
    { "position.open.blocked.daily_stop", "position.open.blocked.max_trades",
      "position.open.blocked.max_open_positions", "position.open.blocked.cooldown" }

RiskChecksPass(checks) == \A name \in RiskCheckNames : CheckPassed(checks, name)

\* the last answer is a pretrade evaluation of the user of the open in the slot;
\* nothing was written and the clock did not move since
EvaluatedBefore(sl) ==
    /\ resp.kind = "pretrade"
    /\ resp.status = 200
    /\ ~resp.cached
    /\ req[sl].kind = "open"
    /\ req[sl].user = resp.user

\* C38: on the same rows and clock the four risk checks of the pretrade
\* evaluation all pass exactly when the open of a claimed signal of that user
\* is not blocked by the daily stop, the trade limit, the limit of open
\* positions or the cooldown: an open that one of the four gates blocks follows
\* an evaluation with a failed risk check, and an open that passes them and
\* creates its position follows an evaluation whose four risk checks passed.
C38_ChecksAgreeWithGate ==
    [][ \A sl \in Slots :
          EvaluatedBefore(sl) =>
              /\ (\E e \in BagToSet(NewEvents) : e.action \in RiskGateActions) =>
                    ~RiskChecksPass(resp.body.checks)
              /\ (At(sl, "open", "finish") /\ Len(positions') > Len(positions)) =>
                    RiskChecksPass(resp.body.checks) ]_vars

\* exactly the cooldown after the last trade, the evaluation passed its four
\* risk checks and the open that followed created its position
C38_Witness ==
    /\ resp.kind = "open"
    /\ resp.status = 200
    /\ \E e \in BagToSet(audit) :
          /\ e.action \in PretradeActions
          /\ RiskChecksPass(Get(e.details).checks)
    /\ \E p \in DOMAIN positions :
          /\ positions[p].opened_at = now
          /\ \E q \in DOMAIN positions :
                /\ q # p
                /\ now - positions[q].opened_at
                      = resolve_risk_profile(Trader).cooldown_between_trades_minutes

----------------------------------------------------------------------------
(* Evaluations are read-only *)

EvaluationKinds == { "pretrade", "exit_check" }

\* the step belongs to a pretrade or exit request: it starts one, moves one or
\* answers one
EvaluationStep ==
    \/ \E sl \in Slots :
          /\ req'[sl] # req[sl]
          /\ req[sl].kind \in EvaluationKinds \/ req'[sl].kind \in EvaluationKinds
    \/ resp' # resp /\ resp'.kind \in EvaluationKinds

\* C39: no step of a pretrade or exit request changes a position, a signal or
\* a daily row, and none creates the row of the day; the step that evaluates
\* writes exactly its one audit event and no idempotency record, and the only
\* other write of an evaluated request is the idempotency record of a pretrade
\* check that came with a key.
C39_EvaluationReadOnly ==
    [][ /\ EvaluationStep => UNCHANGED <<signals, positions, daily, conf>>
        /\ \A sl \in Slots :
              /\ Evaluates(sl) =>
                    /\ BagCardinality(NewEvents) = 1
                    /\ \A e \in BagToSet(NewEvents) : e.action \in PretradeActions
                    /\ idem' = idem
              /\ EvaluatesExit(sl) =>
                    /\ BagCardinality(NewEvents) = 1
                    /\ \A e \in BagToSet(NewEvents) : e.action \in ExitActions
                    /\ idem' = idem
              /\ (At(sl, "pretrade", "store") /\ req'[sl] # req[sl]) =>
                    /\ audit' = audit
                    /\ EffectiveKey(req[sl].key) # None
                    /\ Len(idem') <= Len(idem) + 1
                    /\ \A i \in DOMAIN idem : idem'[i] = idem[i] ]_vars

\* a pretrade check with a key was evaluated and stored on a day for which the
\* trader has no row
C39_Witness ==
    /\ resp.kind = "pretrade"
    /\ resp.status = 200
    /\ ~resp.cached
    /\ EffectiveKey(resp.key) # None
    /\ Len(idem) = 1
    /\ DailyRows(Trader, today_colombia) = {}
    /\ \E e \in BagToSet(audit) : e.action \in PretradeActions

----------------------------------------------------------------------------
(* The close and the risk gates *)

\* the caller asks to close a position that is OPEN and the caller's own
Closable(u, position_id) ==
    /\ position_id \in DOMAIN positions
    /\ positions[position_id].user = u
    /\ positions[position_id].status = "OPEN"

\* C40: a close is never stopped by a risk gate: whatever the kill-switch, the
\* exchange assignment, the exposure caps, the daily stop, the trade limit, the
\* limit of open positions and the cooldown, a close of a position that is OPEN
\* and the caller's own is taken up, writes no event other than position.close,
\* and ends with the position CLOSED and the answer 200; the only closes that
\* are refused are those of a position that is missing, another user's or not
\* OPEN.
C40_CloseNeverGated ==
    [][ /\ (Answers("close") /\ resp'.status # 200) =>
              ~Closable(resp'.user, resp'.a.position_id)
        /\ \A sl \in Slots :
              /\ (req[sl].kind = "close" /\ req'[sl] # req[sl]) =>
                    \A e \in BagToSet(NewEvents) : e.action = "position.close"
              /\ (At(sl, "close", "finish") /\ req'[sl] # req[sl]) =>
                    /\ resp'.kind = "close"
                    /\ resp'.status = 200
                    /\ positions'[req[sl].a.position_id].status = "CLOSED" ]_vars

\* the trader's close has just succeeded although the kill-switch is on, the
\* exchange is disabled and one of the trader's own limits would stop an open
C40_Witness ==
    /\ resp.kind = "close"
    /\ resp.status = 200
    /\ resp.user = Trader
    /\ ~get_trading_enabled
    /\ ~is_exchange_enabled_for_user(Trader, "BINANCE")
    /\ cfg.MAX_OPEN_QTY_PER_SYMBOL > 0
    /\ CooldownRuns(Trader, resolve_risk_profile(Trader))
    /\ CountersOf(daily, Trader, today_colombia).trades_today
          >= resolve_risk_profile(Trader).max_trades_per_day
    /\ \E e \in BagToSet(audit) : e.action = "execution.blocked.kill_switch"

====
